---- MODULE Spec2Model ----
(***************************************************************************)
(* Model of the yuga trading core: the risk gate (yuga/risk/manager.py)    *)
(* and the execution controller (yuga/execution/controller.py) driven by   *)
(* the engine's scan loop (yuga/engine.py).                                *)
(*                                                                         *)
(* Units.  Prices are integers in thousandths (0.450 is 450), sizes are    *)
(* integers, money (PnL, exposure) is price * size.  Time is an integer    *)
(* count of ticks; the configured durations are given in ticks.  The       *)
(* calendar day is a day number; 0 stands for the empty reset date "".     *)
(***************************************************************************)
EXTENDS Integers, Sequences, FiniteSets, TLC

VARIABLES
    now,      \* time.time(), in ticks
    today,    \* time.strftime("%Y-%m-%d"), as a day number
    risk,     \* RiskManager: its CircuitBreaker and its counters
    verdict,  \* what the last check_signal call returned (or that it raised)
    call,     \* the last operation that ran, its inputs, the gate it started from
    streak,   \* history: the run of negative PnL deltas recorded in a row
    orders,          \* every OrderRecord made, in creation order (recent_orders)
    active_quotes,   \* ExecutionController.active_quotes: its items, in dict order
    positions,       \* ExecutionController._positions: outcome -> size, avg_price
    db_orders,       \* the orders table: status and filled_size of each order row
    db_positions,    \* the positions table: outcome -> size, avg_price
    paused,          \* ExecutionController.paused
    last_refresh,    \* ExecutionController._last_refresh
    reprice_threshold_bps,   \* ExecutionController.reprice_threshold_bps
    scan,     \* the scan task: where it is in sync_quotes / refresh_open_orders
    ext,      \* the control task: idle, or inside cancel_all; its calls so far
    events,   \* how many exchange calls did not get the plain answer so far
    cumulative_pnl,      \* ExecutionController._cumulative_pnl
    spread_capture_pnl,  \* ExecutionController._spread_capture_pnl
    mm,       \* MarketMakerEngine: its markets with their books, its counters
    total_rejects,   \* ExecutionController._total_rejects
    late_fills,      \* history: the orders the exchange matched after their cancel was issued
    http,     \* CLOBClient: the request a caller is waiting for
    ws,       \* WebSocketClient: its connection loop and its subscriptions
    applied   \* history: order -> the sum of the fills _apply_fill got for it

rvars == <<risk, verdict, streak>>

pvars == <<cumulative_pnl, spread_capture_pnl>>

cvars == <<orders, active_quotes, positions, db_orders, db_positions, paused,
           last_refresh, reprice_threshold_bps, scan, ext, events,
           total_rejects, late_fills>>

nvars == <<http, ws, applied>>

evars == <<cvars, pvars, mm, nvars>>

vars == <<now, today, call, rvars, evars>>

(***************************************************************************)
(* Bounds of the model.                                                    *)
(***************************************************************************)
MaxTime == 2
MaxDay == 2
MaxChecks == 2
MaxDailyGain == 450
MaxOrders == 8
MaxSyncs == 3
MaxEvents == 1
MaxCancelAll == 1
MaxPauses == 1
MaxUpdates == 3
MaxFills == 3
MaxQuoteScans == 2

(***************************************************************************)
(* RiskConfig (yuga/config.py), durations in ticks, money in price * size. *)
(***************************************************************************)
max_total_exposure_usdc == 5000
max_per_market_exposure_usdc == 3000
max_daily_loss_usdc == 900
max_consecutive_losses == 2
circuit_breaker_cooldown_s == 1
max_open_orders == 6

(***************************************************************************)
(* StrategyConfig (yuga/config.py), durations in ticks.                    *)
(***************************************************************************)
order_size_usdc == 2
max_order_size_usdc == 5
quote_refresh_ms == 1
quote_ttl_ms == 1

RepriceThresholds == {5, 30}

Abs(x) == IF x < 0 THEN -x ELSE x

Min(a, b) == IF a <= b THEN a ELSE b

Max(a, b) == IF a >= b THEN a ELSE b

NoReason == ""

ConsecReason(n) == ToString(n) \o " consecutive losses"

DailyReason == "Daily loss limit exceeded"

RejectionCodes ==
    {"CIRCUIT_BREAKER", "DAILY_LOSS", "CONSEC_LOSSES",
     "TOTAL_EXPOSURE", "MARKET_EXPOSURE", "MAX_ORDERS"}

\* RiskManager.__init__ with its CircuitBreaker
RiskInit ==
    [triggered |-> FALSE, triggered_at |-> 0, reason |-> NoReason,
     consecutive_losses |-> 0, daily_pnl |-> 0, daily_reset_date |-> 0,
     total_checks |-> 0, total_rejections |-> 0,
     rejection_reasons |-> [c \in RejectionCodes |-> 0]]

\* A faulty is_active that lets the breaker go at exactly the cooldown
IsActive_UpToCooldown(r, t) ==
    IF ~r.triggered THEN FALSE
    ELSE IF t - r.triggered_at >= circuit_breaker_cooldown_s THEN FALSE
    ELSE TRUE

\* CircuitBreaker.is_active: the value it returns at time t
IsActive(r, t) ==
    IF ~r.triggered THEN FALSE
    ELSE IF t - r.triggered_at > circuit_breaker_cooldown_s THEN FALSE
    ELSE TRUE

\* CircuitBreaker.is_active: the breaker it leaves (it clears itself once the
\* cooldown has elapsed)
AfterIsActive(r, t) ==
    IF r.triggered /\ t - r.triggered_at > circuit_breaker_cooldown_s
    THEN [r EXCEPT !.triggered = FALSE, !.reason = NoReason]
    ELSE r

\* A faulty daily reset that moves the date but keeps yesterday's PnL
MaybeResetDaily_KeepsPnl(r, d) ==
    IF r.daily_reset_date # d
    THEN [r EXCEPT !.daily_reset_date = d, !.consecutive_losses = 0]
    ELSE r

\* RiskManager._maybe_reset_daily on day d
MaybeResetDaily(r, d) ==
    IF r.daily_reset_date # d
    THEN [r EXCEPT !.daily_pnl = 0, !.daily_reset_date = d,
                   !.consecutive_losses = 0]
    ELSE r

\* RiskManager._trip_circuit_breaker at time t
TripCircuitBreaker(r, t, reason) ==
    [r EXCEPT !.triggered = TRUE, !.triggered_at = t, !.reason = reason]

\* RiskManager._reject: the counters it leaves
Reject(r, code) ==
    [r EXCEPT !.total_rejections = @ + 1,
              !.rejection_reasons[code] = @ + 1]

\* RiskManager.reset_circuit_breaker
ResetCircuitBreaker(r) ==
    [r EXCEPT !.triggered = FALSE, !.reason = NoReason]

\* What check_signal hands back: (allowed, reason), the reason given by its
\* rejection code, or an exception
Returned(r, allowed, code) ==
    [risk |-> r, allowed |-> allowed, code |-> code, raised |-> FALSE]

Raised(r, exc) ==
    [risk |-> r, allowed |-> FALSE, code |-> exc, raised |-> TRUE]

\* RiskManager.check_signal lines 77-96: the exposure and open-order checks
\* on a candidate that is past the breaker and the loss counters.  Line 79
\* reads signal.yes_price and signal.no_price: a candidate without these
\* attributes (cand.leg_prices = FALSE) raises AttributeError there.
CheckLimits(r, cand, total_exp, mkt_exp, n_open) ==
    IF ~cand.leg_prices THEN Raised(r, "AttributeError")
    ELSE LET order_cost == cand.yes_price * cand.max_size
                           + cand.no_price * cand.max_size
         IN IF total_exp + order_cost > max_total_exposure_usdc
            THEN Returned(Reject(r, "TOTAL_EXPOSURE"), FALSE, "TOTAL_EXPOSURE")
            ELSE IF mkt_exp + order_cost > max_per_market_exposure_usdc
            THEN Returned(Reject(r, "MARKET_EXPOSURE"), FALSE, "MARKET_EXPOSURE")
            ELSE IF n_open >= max_open_orders
            THEN Returned(Reject(r, "MAX_ORDERS"), FALSE, "MAX_ORDERS")
            ELSE Returned(r, TRUE, "OK")

\* RiskManager.check_signal lines 65-75: the daily-loss and consecutive-loss
\* checks, each of which trips the breaker
CheckLosses(r, t, d, cand, total_exp, mkt_exp, n_open) ==
    LET r1 == MaybeResetDaily(r, d)
    IN IF r1.daily_pnl <= -max_daily_loss_usdc
       THEN Returned(Reject(TripCircuitBreaker(r1, t, DailyReason), "DAILY_LOSS"),
                     FALSE, "DAILY_LOSS")
       ELSE IF r1.consecutive_losses >= max_consecutive_losses
       THEN Returned(Reject(TripCircuitBreaker(
                                r1, t, ConsecReason(r1.consecutive_losses)),
                            "CONSEC_LOSSES"),
                     FALSE, "CONSEC_LOSSES")
       ELSE CheckLimits(r1, cand, total_exp, mkt_exp, n_open)

\* RiskManager.check_signal at time t on day d, with the exposures and the
\* open-order count the durable store reports
CheckSignal(r, t, d, cand, total_exp, mkt_exp, n_open) ==
    LET r0 == [r EXCEPT !.total_checks = @ + 1]
    IN IF IsActive(r0, t)
       THEN Returned(Reject(r0, "CIRCUIT_BREAKER"), FALSE, "CIRCUIT_BREAKER")
       ELSE CheckLosses(AfterIsActive(r0, t), t, d, cand,
                        total_exp, mkt_exp, n_open)

\* A faulty record_cycle_result that takes a zero delta for a loss
RecordCycleResult_ZeroIsLoss(r, d, pnl) ==
    LET r1 == MaybeResetDaily(r, d)
        r2 == [r1 EXCEPT !.daily_pnl = @ + pnl]
    IN IF pnl <= 0
       THEN [r2 EXCEPT !.consecutive_losses = @ + 1]
       ELSE [r2 EXCEPT !.consecutive_losses = 0]

\* RiskManager.record_cycle_result on day d
RecordCycleResult(r, d, pnl) ==
    LET r1 == MaybeResetDaily(r, d)
        r2 == [r1 EXCEPT !.daily_pnl = @ + pnl]
    IN IF pnl < 0
       THEN [r2 EXCEPT !.consecutive_losses = @ + 1]
       ELSE [r2 EXCEPT !.consecutive_losses = 0]

(***************************************************************************)
(* The execution controller's data.                                        *)
(*                                                                         *)
(* A quote key is the triple <<condition_id, token_id, side>>; the source  *)
(* joins the three with ":" and tests the condition with                   *)
(* startswith(condition_id + ":"), which is the test of the first          *)
(* component.  An order is known by its index in orders.                   *)
(***************************************************************************)
Conditions == {"c1"}

Tokens == {"yes", "no", "no2"}

Sides == {"BUY", "SELL"}

Outcomes == {"YES", "NO"}

Keys == Conditions \X Tokens \X Sides

\* ExecutionController._quote_key
QuoteKey(condition_id, token_id, side) == <<condition_id, token_id, side>>

KeyOfOrder(o) == QuoteKey(o.condition_id, o.token_id, o.side)

LiveStatuses == {"OPEN", "PARTIAL"}

TerminalStatuses == {"FILLED", "CANCELLED", "REJECTED"}

\* The rows that Database.get_open_orders selects
DbOpenStatuses == {"PENDING", "OPEN", "PARTIAL"}

\* ExecutionController.__init__
NoPosition == [held |-> FALSE, size |-> 0, avg_price |-> 0]

NoRow == [size |-> 0, avg_price |-> 0]

\* QuoteSignal as MarketMaker._quote_market builds it: its four orders
QuoteOrders(sig) ==
    << [token_id |-> sig.yes_token, outcome |-> "YES", side |-> "BUY",
        price |-> sig.yes_bid, size |-> sig.max_size],
       [token_id |-> sig.yes_token, outcome |-> "YES", side |-> "SELL",
        price |-> sig.yes_ask, size |-> sig.max_size],
       [token_id |-> sig.no_token, outcome |-> "NO", side |-> "BUY",
        price |-> sig.no_bid, size |-> sig.max_size],
       [token_id |-> sig.no_token, outcome |-> "NO", side |-> "SELL",
        price |-> sig.no_ask, size |-> sig.max_size] >>

\* sync_quotes: the adjusted signal, every order resized to
\* min(order_size, signal.max_size, max_order_size)
AdjustedSize(sig) == Min(Min(order_size_usdc, sig.max_size), max_order_size_usdc)

Adjusted(sig) == [sig EXCEPT !.max_size = AdjustedSize(sig)]

DesiredKeys(sig) ==
    {QuoteKey(sig.condition_id, o.token_id, o.side) :
        o \in {QuoteOrders(sig)[n] : n \in 1..4}}

\* The candidate check_signal reads from the adjusted signal.  A QuoteSignal
\* has no yes_price / no_price field (leg_prices = FALSE); where the signal
\* object carries them they are the two buy prices.
CandidateOf(sig) ==
    [market_id |-> sig.market_id, leg_prices |-> sig.leg_prices,
     yes_price |-> sig.yes_bid, no_price |-> sig.no_bid,
     max_size |-> sig.max_size]

\* The signals MarketMaker.generate_quotes hands to sync_quotes
BaseQuote ==
    [market_id |-> "m1", condition_id |-> "c1",
     yes_token |-> "yes", no_token |-> "no",
     yes_bid |-> 450, yes_ask |-> 460, no_bid |-> 540, no_ask |-> 550,
     max_size |-> 3, leg_prices |-> TRUE]

QuoteInputs ==
    { BaseQuote,
      [BaseQuote EXCEPT !.yes_bid = 449],
      [BaseQuote EXCEPT !.max_size = 1],
      [BaseQuote EXCEPT !.no_token = "no2"],
      [BaseQuote EXCEPT !.leg_prices = FALSE] }

NoQuote == [BaseQuote EXCEPT !.market_id = "", !.max_size = 0]

\* Database.get_total_exposure / get_market_exposure (one market)
DbExposure(rows) ==
    LET e(o) == Abs(rows[o].size * rows[o].avg_price)
    IN e("YES") + e("NO")

\* len(Database.get_open_orders())
DbOpenCount(rows) ==
    Cardinality({n \in 1..Len(rows) : rows[n].status \in DbOpenStatuses})

\* active_quotes is a dict: a sequence of items [key, oid] in insertion
\* order.  d.get(key) (0: None), d[key] = oid, d.pop(key, None), d.keys()
Get(d, key) ==
    IF \E n \in 1..Len(d) : d[n].key = key
    THEN d[CHOOSE n \in 1..Len(d) : d[n].key = key].oid
    ELSE 0

Put(d, key, oid) ==
    IF Get(d, key) # 0
    THEN [n \in 1..Len(d) |-> IF d[n].key = key THEN [d[n] EXCEPT !.oid = oid]
                                                ELSE d[n]]
    ELSE Append(d, [key |-> key, oid |-> oid])

Pop(d, key) ==
    LET Other(item) == item.key # key
    IN SelectSeq(d, Other)

KeysOf(d) == {d[n].key : n \in 1..Len(d)}

\* A faulty _should_keep that gives up an order at exactly the TTL
ShouldKeep_UpToTtl(existing, desired, t, threshold_bps) ==
    IF existing.status \notin {"OPEN", "PARTIAL"} THEN FALSE
    ELSE IF Abs(existing.size - desired.size) > 0 THEN FALSE
    ELSE IF existing.price <= 0 THEN FALSE
    ELSE IF Abs(existing.price - desired.price) * 10000
               >= threshold_bps * existing.price THEN FALSE
    ELSE IF t - existing.created_at >= quote_ttl_ms THEN FALSE
    ELSE TRUE

\* ExecutionController._should_keep at time t; sizes are integers, so the
\* test abs(existing.size - desired.size) > 1e-6 is the test of a difference,
\* and the drift test is cross-multiplied by existing.price (> 0 there)
ShouldKeep(existing, desired, t, threshold_bps) ==
    IF existing.status \notin {"OPEN", "PARTIAL"} THEN FALSE
    ELSE IF Abs(existing.size - desired.size) > 0 THEN FALSE
    ELSE IF existing.price <= 0 THEN FALSE
    ELSE IF Abs(existing.price - desired.price) * 10000
               >= threshold_bps * existing.price THEN FALSE
    ELSE IF t - existing.created_at > quote_ttl_ms THEN FALSE
    ELSE TRUE

\* sync_quotes: the keys of the condition that are live and not desired
StaleKeys(d, sig) ==
    LET IsStale(item) == /\ item.key[1] = sig.condition_id
                         /\ item.key \notin DesiredKeys(sig)
        stale == SelectSeq(d, IsStale)
    IN [n \in 1..Len(stale) |-> stale[n].key]

\* _place_order: the OrderRecord of a desired order, made at time t
NewRecord(sig, o, t, status) ==
    [market_id |-> sig.market_id, condition_id |-> sig.condition_id,
     token_id |-> o.token_id, side |-> o.side, outcome |-> o.outcome,
     price |-> o.price, size |-> o.size, filled_size |-> 0,
     status |-> status, created_at |-> t]

\* _cancel_order once clob.cancel_order has answered: the order and its row
Cancelled(os, oid, ok) ==
    IF ok THEN [os EXCEPT ![oid].status = "CANCELLED"] ELSE os

CancelledRow(rows, os, oid, ok) ==
    IF ok THEN [rows EXCEPT ![oid] = [status |-> "CANCELLED",
                                      filled_size |-> os[oid].filled_size]]
    ELSE rows

\* Float division, to the last unit of the result and rounded toward zero
Quot(a, b) ==
    IF (a < 0) = (b < 0) THEN Abs(a) \div Abs(b) ELSE 0 - (Abs(a) \div Abs(b))

\* A faulty _apply_fill that keeps the average price of a position gone flat
PositionAfter_KeepsAvg(pos, side, price, filled) ==
    LET signed == IF side = "BUY" THEN filled ELSE 0 - filled
        new_size == pos.size + signed
        avg_price == IF side = "BUY" /\ new_size # 0
                     THEN Quot(pos.size * pos.avg_price + filled * price * 1000,
                               new_size)
                     ELSE pos.avg_price
    IN [held |-> TRUE, size |-> new_size, avg_price |-> avg_price]

\* _apply_fill: the position after a fill of `filled` at `price`.  avg_price
\* is kept in millionths, a thousand times finer than the order prices.
PositionAfter(pos, side, price, filled) ==
    LET signed == IF side = "BUY" THEN filled ELSE 0 - filled
        old_size == pos.size
        old_avg == pos.avg_price
        new_size == old_size + signed
        avg_price == IF side = "BUY" /\ new_size # 0
                     THEN Quot(old_size * old_avg + filled * price * 1000,
                               new_size)
                     ELSE IF new_size # 0 THEN old_avg ELSE 0
    IN [held |-> TRUE, size |-> new_size, avg_price |-> avg_price]

\* A faulty _apply_fill that books the cost of a BUY fill as no PnL at all
FillPnl_BuyIsFlat(side, price, filled) ==
    IF side = "SELL" THEN filled * price ELSE 0

\* A faulty _apply_fill that books every fill as a gain
FillPnl_AlwaysGain(side, price, filled) == filled * price

\* _apply_fill: the PnL delta it books and hands to record_cycle_result
FillPnl(side, price, filled) ==
    filled * price * (IF side = "SELL" THEN 1 ELSE -1)

\* _apply_fill: the row it upserts, with the order's price as avg_price
RowAfter(pos, side, price, filled) ==
    [size |-> PositionAfter(pos, side, price, filled).size, avg_price |-> price]

\* What clob.get_order may answer for an order: status and size_matched;
\* the plain answer is that of an order still open and unmatched
PlainAnswer == [status |-> "LIVE", size_matched |-> 0]

GetOrderAnswers(o) ==
    { PlainAnswer,
      [status |-> "LIVE", size_matched |-> 1],
      [status |-> "MATCHED", size_matched |-> o.size],
      [status |-> "CANCELLED", size_matched |-> 0] }

\* A faulty refresh_open_orders that books the size_matched it is told
Refreshed_TakesReported(o, answer) ==
    IF answer.status = "MATCHED" \/ answer.size_matched >= o.size
    THEN [o EXCEPT !.status = "FILLED", !.filled_size = answer.size_matched]
    ELSE IF answer.size_matched > 0
    THEN [o EXCEPT !.status = "PARTIAL", !.filled_size = answer.size_matched]
    ELSE IF answer.status \in {"CANCELLED", "EXPIRED"}
    THEN [o EXCEPT !.status = "CANCELLED"]
    ELSE o

\* refresh_open_orders, the branch taken on an answer: the order after it
Refreshed(o, answer) ==
    IF answer.status = "MATCHED" \/ answer.size_matched >= o.size
    THEN [o EXCEPT !.status = "FILLED", !.filled_size = o.size]
    ELSE IF answer.size_matched > 0
    THEN [o EXCEPT !.status = "PARTIAL", !.filled_size = answer.size_matched]
    ELSE IF answer.status \in {"CANCELLED", "EXPIRED"}
    THEN [o EXCEPT !.status = "CANCELLED"]
    ELSE o

\* refresh_open_orders: delta = max(0.0, filled - order.filled_size), applied
\* as a fill in the FILLED and the PARTIAL branch
FillDelta(o, answer) ==
    IF answer.status = "MATCHED" \/ answer.size_matched >= o.size
          \/ answer.size_matched > 0
    THEN Max(0, answer.size_matched - o.filled_size)
    ELSE 0

\* refresh_open_orders pops the key in the FILLED and the CANCELLED branch
RefreshPops(o, answer) == Refreshed(o, answer).status \in {"FILLED", "CANCELLED"}

\* load_positions: the positions the controller starts with, read from the
\* rows get_positions returns (those of a size other than zero); avg_price
\* goes from the thousandths of the row to the millionths of the position
LoadPositions(rows) ==
    [o \in Outcomes |->
        IF rows[o].size # 0
        THEN [held |-> TRUE, size |-> rows[o].size,
              avg_price |-> rows[o].avg_price * 1000]
        ELSE NoPosition]

\* The scan task between two iterations of Engine._scan_loop
ScanSleep ==
    [pc |-> "sleep", sig |-> NoQuote, i |-> 0, oid |-> 0, t0 |-> 0,
     todo |-> <<>>, ref_now |-> 0, clean |-> TRUE]

\* The scan task is suspended in an await: other tasks run and time passes
Suspended ==
    scan.pc \in {"sleep", "cancel_wait", "place_wait", "place_db",
                 "stale_wait", "ref_cancel_wait", "ref_get_wait"}

\* No fill has been applied to any order
NoneApplied == [oid \in 1..MaxOrders |-> 0]

ExecInit ==
    /\ orders = <<>>
    /\ active_quotes = <<>>
    /\ positions = [o \in Outcomes |-> NoPosition]
    /\ db_orders = <<>>
    /\ db_positions = [o \in Outcomes |-> NoRow]
    /\ paused = FALSE
    /\ last_refresh = 0 - quote_refresh_ms
    /\ scan = ScanSleep
    /\ ext = [pc |-> "idle", cancel_alls |-> 0, pauses |-> 0]
    /\ events = 0
    /\ cumulative_pnl = 0
    /\ spread_capture_pnl = 0
    /\ total_rejects = 0
    /\ late_fills = {}

(***************************************************************************)
(* The market maker (yuga/strategy/market_maker.py) and the book updates   *)
(* it gets from Engine._on_book_update.  A price level is <<price, size>>, *)
(* a ladder a sequence of levels.  mm.markets is the registry in dict      *)
(* order; mm.updates counts the book updates handled so far and            *)
(* mm.discoveries the discovery passes.                                    *)
(***************************************************************************)
quote_spread_bps == 20
min_liquidity_usdc == 50
price_staleness_ms == 1
position_limit_per_outcome == 500

\* A book that is None
NoBook == [token_id |-> "", outcome |-> "", bids |-> <<>>, asks |-> <<>>,
           timestamp |-> 0 - 1]

\* MarketState as Engine builds it at discovery: no books yet, active
NewMarket(market_id, condition_id, yes_token_id, no_token_id) ==
    [market_id |-> market_id, condition_id |-> condition_id,
     yes_token_id |-> yes_token_id, no_token_id |-> no_token_id,
     yes_book |-> NoBook, no_book |-> NoBook, active |-> TRUE,
     last_quote |-> 0]

Registry == << NewMarket("m1", "c1", "yes", "no"),
               NewMarket("m2", "c2", "yes2", "no2") >>

RegistryConditions == {Registry[n].condition_id : n \in 1..Len(Registry)}

NoSignal == [market_id |-> ""]

\* MarketMakerEngine.__init__, then add_market for the registry
MmInit ==
    [markets |-> Registry,
     active_quotes |-> [c \in RegistryConditions |-> NoSignal],
     scan_count |-> 0, quote_count |-> 0, updates |-> 0, discoveries |-> 0]

\* OrderBookSnapshot.best_bid, best_ask, best_bid_size, best_ask_size
BestBid(book) == IF book.bids # <<>> THEN book.bids[1][1] ELSE 0

BestAsk(book) == IF book.asks # <<>> THEN book.asks[1][1] ELSE 1000

BestBidSize(book) == IF book.bids # <<>> THEN book.bids[1][2] ELSE 0

BestAskSize(book) == IF book.asks # <<>> THEN book.asks[1][2] ELSE 0

\* OrderBookSnapshot.mid, doubled: (best_bid + best_ask) / 2 with both sides,
\* otherwise best_bid or best_ask
MidTimes2(book) ==
    IF book.bids # <<>> /\ book.asks # <<>>
    THEN BestBid(book) + BestAsk(book)
    ELSE 2 * (IF BestBid(book) # 0 THEN BestBid(book) ELSE BestAsk(book))

\* A faulty is_stale for which no snapshot is ever too old
IsStale_Never(book, t, max_age_ms) == FALSE

\* OrderBookSnapshot.is_stale at time t
IsStale(book, t, max_age_ms) == t - book.timestamp > max_age_ms

\* MarketState.is_ready at time t
IsReady(mkt, t, max_age_ms) ==
    /\ mkt.yes_book # NoBook
    /\ mkt.no_book # NoBook
    /\ ~IsStale(mkt.yes_book, t, max_age_ms)
    /\ ~IsStale(mkt.no_book, t, max_age_ms)

\* list.sort(key=price) and list.sort(key=price, reverse=True): a stable sort,
\* levels of one price keep the order they came in
ComesBefore(a, b, reverse) == IF reverse THEN a[1] > b[1] ELSE a[1] < b[1]

RECURSIVE SortLevels(_, _)
SortLevels(levels, reverse) ==
    IF levels = <<>> THEN <<>>
    ELSE LET x == Head(levels)
             rest == SortLevels(Tail(levels), reverse)
             k == Cardinality({n \in 1..Len(rest) :
                                  ComesBefore(rest[n], x, reverse)})
         IN SubSeq(rest, 1, k) \o <<x>> \o SubSeq(rest, k + 1, Len(rest))

\* [(float(b["price"]), float(b["size"])) for b in ...]
Levels(items) == [n \in 1..Len(items) |-> <<items[n].price, items[n].size>>]

\* dict.get(name, []) on a payload: keys is the set of names it carries
DataGet(data, name) ==
    IF name \in data.keys THEN data[name] ELSE <<>>

\* A faulty _on_book_update that reads "bids" and "asks" only
BookData_BidsAsksOnly(update) ==
    [keys |-> update.keys \cap {"bids", "asks"},
     bids |-> IF "bids" \in update.keys THEN update.bids ELSE <<>>,
     asks |-> IF "asks" \in update.keys THEN update.asks ELSE <<>>]

\* Engine._on_book_update: the book data it builds from a streaming update,
\* "bids" / "asks" first, then "buys" / "sells" over them
BookData(update) ==
    [keys |-> (IF update.keys \cap {"bids", "buys"} # {} THEN {"bids"} ELSE {})
              \cup (IF update.keys \cap {"asks", "sells"} # {} THEN {"asks"}
                    ELSE {}),
     bids |-> IF "buys" \in update.keys THEN update.buys
              ELSE IF "bids" \in update.keys THEN update.bids ELSE <<>>,
     asks |-> IF "sells" \in update.keys THEN update.sells
              ELSE IF "asks" \in update.keys THEN update.asks ELSE <<>>]

\* update_book: the first market of the registry, in dict order, that has the
\* token as its YES or its NO token (0: none)
MarketOf(markets, token_id) ==
    LET hits == {n \in 1..Len(markets) :
                    token_id \in {markets[n].yes_token_id,
                                  markets[n].no_token_id}}
    IN IF hits = {} THEN 0 ELSE CHOOSE n \in hits : \A k \in hits : n <= k

\* update_book: the snapshot it builds from the book data at time t
Snapshot(token_id, book_data, t) ==
    [token_id |-> token_id, outcome |-> "",
     bids |-> SortLevels(Levels(DataGet(book_data, "bids")), TRUE),
     asks |-> SortLevels(Levels(DataGet(book_data, "asks")), FALSE),
     timestamp |-> t]

\* A faulty update_book that files the snapshot of a token it does not know
\* as the YES book of the first market
UpdateBook_FilesUnknown(markets, token_id, book_data, t) ==
    LET n == IF MarketOf(markets, token_id) = 0 THEN 1
             ELSE MarketOf(markets, token_id)
        yes == [Snapshot(token_id, book_data, t) EXCEPT !.outcome = "YES"]
        no == [Snapshot(token_id, book_data, t) EXCEPT !.outcome = "NO"]
    IN IF markets[n].no_token_id = token_id
       THEN [markets |-> [markets EXCEPT ![n].no_book = no], returned |-> no]
       ELSE [markets |-> [markets EXCEPT ![n].yes_book = yes], returned |-> yes]

\* A faulty update_book that adds the new levels to the ladders it holds
UpdateBook_Merges(markets, token_id, book_data, t) ==
    LET n == MarketOf(markets, token_id)
        fresh == Snapshot(token_id, book_data, t)
        Merged(old, outcome) ==
            [fresh EXCEPT !.outcome = outcome,
                          !.bids = SortLevels(old.bids \o @, TRUE),
                          !.asks = SortLevels(old.asks \o @, FALSE)]
    IN IF n = 0 THEN [markets |-> markets, returned |-> NoBook]
       ELSE IF markets[n].yes_token_id = token_id
       THEN [markets |-> [markets EXCEPT ![n].yes_book = Merged(@, "YES")],
             returned |-> Merged(markets[n].yes_book, "YES")]
       ELSE [markets |-> [markets EXCEPT ![n].no_book = Merged(@, "NO")],
             returned |-> Merged(markets[n].no_book, "NO")]

\* MarketMakerEngine.update_book at time t: the registry after it and the
\* snapshot it returns (NoBook: None)
UpdateBook(markets, token_id, book_data, t) ==
    LET n == MarketOf(markets, token_id)
        yes == [Snapshot(token_id, book_data, t) EXCEPT !.outcome = "YES"]
        no == [Snapshot(token_id, book_data, t) EXCEPT !.outcome = "NO"]
    IN IF n = 0 THEN [markets |-> markets, returned |-> NoBook]
       ELSE IF markets[n].yes_token_id = token_id
       THEN [markets |-> [markets EXCEPT ![n].yes_book = yes], returned |-> yes]
       ELSE [markets |-> [markets EXCEPT ![n].no_book = no], returned |-> no]

\* Engine._on_book_update at time t: nothing without an asset id or without
\* a side, otherwise update_book on the book data
OnBookUpdate(markets, update, t) ==
    IF update.asset_id = "" \/ BookData(update).keys = {}
    THEN [markets |-> markets, returned |-> NoBook]
    ELSE UpdateBook(markets, update.asset_id, BookData(update), t)

\* round(n / d) to the nearest integer, a tie to the even one (n >= 0, d > 0)
RoundHalfEven(n, d) ==
    LET q == n \div d
        r == n % d
    IN IF 2 * r < d THEN q
       ELSE IF 2 * r > d THEN q + 1
       ELSE IF q % 2 = 0 THEN q ELSE q + 1

\* _quote_market._px on the price n / d (in thousandths):
\* round(min(max(p, 0.01), 0.99), 3)
Px(n, d) ==
    IF n < 10 * d THEN 10
    ELSE IF n > 990 * d THEN 990
    ELSE RoundHalfEven(n, d)

\* The greatest common divisor of a >= 0 and b > 0
RECURSIVE Gcd(_, _)
Gcd(a, b) == IF a = 0 THEN b ELSE Gcd(b % a, a)

\* _quote_market: skew_ratio as the fraction num / den in lowest terms
SkewRatio(inv, inventory_limit) ==
    LET skew == Max(Abs(inv.YES), Abs(inv.NO))
        num == Min(skew, inventory_limit)
        g == Gcd(num, inventory_limit)
    IN IF inventory_limit > 0
       THEN [num |-> num \div g, den |-> inventory_limit \div g]
       ELSE [num |-> 0, den |-> 1]

\* _quote_market: half_spread_yes / half_spread_no of a book, in millionths
\* (whole for the books it is used on)
HalfSpread(book, ratio) ==
    (quote_spread_bps * MidTimes2(book) * (ratio.den + ratio.num) * 1000)
        \div (40000 * ratio.den)

\* _quote_market: the bid and the ask around the mid of a book.  With
\* half_spread = quote_spread_bps / 20000 * mid * (1 + skew_ratio) the two
\* prices are mid -/+ half_spread = mid2 * (20000 * den -/+ bps * (den + num))
\* / (40000 * den)
QuoteBid(book, ratio) ==
    Px(MidTimes2(book) * (20000 * ratio.den
                            - quote_spread_bps * (ratio.den + ratio.num)),
       40000 * ratio.den)

\* A faulty ask that leaves the inventory skew out of the half spread
QuoteAsk_Unskewed(book, ratio) ==
    Px(MidTimes2(book) * (20000 + quote_spread_bps), 40000)

QuoteAsk(book, ratio) ==
    Px(MidTimes2(book) * (20000 * ratio.den
                            + quote_spread_bps * (ratio.den + ratio.num)),
       40000 * ratio.den)

\* _quote_market: min(best_bid_size, best_ask_size) * mid of a book is below
\* min_liquidity (both sides doubled, in thousandths)
TooThin(book) ==
    Min(BestBidSize(book), BestAskSize(book)) * MidTimes2(book)
        < min_liquidity_usdc * 2000

\* _quote_market: max_size, the least of the four best sizes times
\* size_scale = max(0.2, 1 - skew_ratio), in thousandths of a unit
QuoteSize(mkt, ratio) ==
    LET least == Min(Min(BestBidSize(mkt.yes_book), BestAskSize(mkt.yes_book)),
                     Min(BestBidSize(mkt.no_book), BestAskSize(mkt.no_book)))
    IN (least * 1000 * Max(ratio.den, 5 * (ratio.den - ratio.num)))
           \div (5 * ratio.den)

\* A faulty _quote_market that emits the quote whatever its prices are
QuoteMarket_EmitsCollapsed(mkt, inv, inventory_limit, t) ==
    LET ratio == SkewRatio(inv, inventory_limit)
    IN IF TooThin(mkt.yes_book) \/ TooThin(mkt.no_book) THEN NoSignal
       ELSE [market_id |-> mkt.market_id, condition_id |-> mkt.condition_id,
             yes_token |-> mkt.yes_token_id, no_token |-> mkt.no_token_id,
             yes_bid |-> QuoteBid(mkt.yes_book, ratio),
             yes_ask |-> QuoteAsk(mkt.yes_book, ratio),
             no_bid |-> QuoteBid(mkt.no_book, ratio),
             no_ask |-> QuoteAsk(mkt.no_book, ratio),
             max_size |-> QuoteSize(mkt, ratio), timestamp |-> t]

\* MarketMakerEngine._quote_market at time t: the QuoteSignal of a market
\* whose two books are there, or NoSignal (None)
QuoteMarket(mkt, inv, inventory_limit, t) ==
    LET ratio == SkewRatio(inv, inventory_limit)
        yes_bid == QuoteBid(mkt.yes_book, ratio)
        yes_ask == QuoteAsk(mkt.yes_book, ratio)
        no_bid == QuoteBid(mkt.no_book, ratio)
        no_ask == QuoteAsk(mkt.no_book, ratio)
    IN IF TooThin(mkt.yes_book) \/ TooThin(mkt.no_book) THEN NoSignal
       ELSE IF yes_bid >= yes_ask \/ no_bid >= no_ask THEN NoSignal
       ELSE [market_id |-> mkt.market_id, condition_id |-> mkt.condition_id,
             yes_token |-> mkt.yes_token_id, no_token |-> mkt.no_token_id,
             yes_bid |-> yes_bid, yes_ask |-> yes_ask,
             no_bid |-> no_bid, no_ask |-> no_ask,
             max_size |-> QuoteSize(mkt, ratio), timestamp |-> t]

\* generate_quotes, one market of the loop: the signal it appends, NoSignal
\* when the market is passed over or yields none
SignalOf(mkt, inventory, inventory_limit, t) ==
    IF ~mkt.active \/ ~IsReady(mkt, t, price_staleness_ms) THEN NoSignal
    ELSE QuoteMarket(mkt, inventory[mkt.condition_id], inventory_limit, t)

\* generate_quotes at time t: the signals it returns, in registry order
GeneratedSignals(markets, inventory, inventory_limit, t) ==
    LET Quoted(mkt) == SignalOf(mkt, inventory, inventory_limit, t) # NoSignal
        quoted == SelectSeq(markets, Quoted)
    IN [n \in 1..Len(quoted) |->
           SignalOf(quoted[n], inventory, inventory_limit, t)]

\* generate_quotes at time t: the market maker after it
GenerateQuotes(m, inventory, inventory_limit, t) ==
    LET Passed(mkt) == ~mkt.active \/ ~IsReady(mkt, t, price_staleness_ms)
        sig(mkt) == SignalOf(mkt, inventory, inventory_limit, t)
        MarketAt(c) == m.markets[CHOOSE n \in 1..Len(m.markets) :
                                    m.markets[n].condition_id = c]
    IN [m EXCEPT
          !.scan_count = @ + 1,
          !.quote_count =
              @ + Len(GeneratedSignals(m.markets, inventory,
                                       inventory_limit, t)),
          !.active_quotes =
              [c \in DOMAIN @ |-> IF Passed(MarketAt(c)) THEN @[c]
                                  ELSE sig(MarketAt(c))],
          !.markets =
              [n \in 1..Len(@) |-> IF sig(@[n]) # NoSignal
                                   THEN [@[n] EXCEPT !.last_quote = t]
                                   ELSE @[n]]]

(***************************************************************************)
(* The two clients of the exchange (yuga/ingestion): CLOBClient, whose     *)
(* http is the request a caller waits for, and WebSocketClient, whose ws   *)
(* is the connection loop with the subscriptions it keeps.                 *)
(***************************************************************************)
\* CLOBClient after start(): no request under way
HttpIdle == [pc |-> "idle", op |-> "", method |-> "", answers |-> <<>>,
             slept |-> 0, result |-> "", calls |-> 0]

\* WebSocketClient.__init__.  pc is where _connection_loop is; subscriptions
\* the markets of _subscriptions, each with its two tokens; sent the messages
\* handed to the connection that is open, frames the frames read from it;
\* backoff the seconds of the last sleep; calls the subscribe and unsubscribe
\* calls so far
WsInit == [pc |-> "off", running |-> FALSE, stopping |-> FALSE,
           connected |-> FALSE, reconnect_count |-> 0, backoff |-> 0,
           subscriptions |-> {}, subscribed_assets |-> {},
           sent |-> <<>>, frames |-> 0, last_message_at |-> 0, calls |-> 0]

ClientInit ==
    /\ http = HttpIdle
    /\ ws = WsInit

(***************************************************************************)
(* The risk gate on its own: its public operations on bounded inputs.      *)
(***************************************************************************)
NoVerdict == [allowed |-> FALSE, code |-> "none", raised |-> FALSE]

NoCand == [market_id |-> "", leg_prices |-> FALSE,
           yes_price |-> 0, no_price |-> 0, max_size |-> 0]

NoCall == [op |-> "init", pnl |-> 0, cand |-> NoCand,
           total_exp |-> 0, mkt_exp |-> 0, n_open |-> 0, before |-> RiskInit]

\* Candidates: an ArbSignal carries yes_price and no_price, the QuoteSignal
\* that sync_quotes builds does not
RiskCandidates ==
    [market_id : {"m1"}, leg_prices : BOOLEAN,
     yes_price : {450}, no_price : {540}, max_size : {1, 3}]

ExposureInputs == {0, 2500}

OpenOrderInputs == {0, max_open_orders}

PnlInputs == {-450, 0, 450}

\* History of record_cycle_result's inputs: run is the number of negative
\* deltas recorded in a row (counted up to max_consecutive_losses), since is
\* the time of the last record that made the run reach it (-1: none, or a
\* manual reset since)
NoStreak == [run |-> 0, since |-> -1]

StreakAfter(st, t, pnl) ==
    IF pnl < 0
    THEN IF st.run + 1 >= max_consecutive_losses
         THEN [run |-> max_consecutive_losses, since |-> t]
         ELSE [st EXCEPT !.run = @ + 1]
    ELSE [st EXCEPT !.run = 0]

InitRisk ==
    /\ streak = NoStreak
    /\ now = 0
    /\ today = 1
    /\ risk = RiskInit
    /\ verdict = NoVerdict
    /\ call = NoCall
    /\ ExecInit
    /\ ClientInit
    /\ applied = NoneApplied
    /\ mm = MmInit
    /\ reprice_threshold_bps = 5

RiskCheck ==
    /\ risk.total_checks < MaxChecks
    /\ \E cand \in RiskCandidates, te \in ExposureInputs,
          me \in ExposureInputs, n \in OpenOrderInputs :
          /\ me <= te
          /\ LET res == CheckSignal(risk, now, today, cand, te, me, n)
             IN /\ risk' = res.risk
                /\ verdict' = [allowed |-> res.allowed, code |-> res.code,
                               raised |-> res.raised]
                /\ call' = [op |-> "check_signal", pnl |-> 0, cand |-> cand,
                            total_exp |-> te, mkt_exp |-> me, n_open |-> n,
                            before |-> risk]
    /\ UNCHANGED <<now, today, streak, evars>>

RiskRecord ==
    /\ risk.consecutive_losses <= max_consecutive_losses
    /\ \E pnl \in PnlInputs :
          /\ MaybeResetDaily(risk, today).daily_pnl + pnl
               \in -max_daily_loss_usdc .. MaxDailyGain
          /\ risk' = RecordCycleResult(risk, today, pnl)
          /\ call' = [NoCall EXCEPT !.op = "record_cycle_result", !.pnl = pnl,
                                   !.before = risk]
          /\ streak' = StreakAfter(streak, now, pnl)
    /\ UNCHANGED <<now, today, verdict, evars>>

RiskReset ==
    /\ risk' = ResetCircuitBreaker(risk)
    /\ call' = [NoCall EXCEPT !.op = "reset_circuit_breaker", !.before = risk]
    /\ streak' = [streak EXCEPT !.since = -1]
    /\ UNCHANGED <<now, today, verdict, evars>>

Tick ==
    /\ now < MaxTime
    /\ now' = now + 1
    /\ call' = [NoCall EXCEPT !.op = "tick"]
    /\ UNCHANGED <<today, rvars, evars>>

NextDay ==
    /\ today < MaxDay
    /\ today' = today + 1
    /\ call' = [NoCall EXCEPT !.op = "next_day"]
    /\ UNCHANGED <<now, rvars, evars>>

NextRisk == RiskCheck \/ RiskRecord \/ RiskReset \/ Tick \/ NextDay

SpecRisk == InitRisk /\ [][NextRisk]_vars

(***************************************************************************)
(* Properties of the risk gate.  After an operation, call.before is the    *)
(* gate it started from; now and today are those of the operation (no      *)
(* operation of the gate moves them).                                      *)
(***************************************************************************)
LossCodes == {"CIRCUIT_BREAKER", "DAILY_LOSS", "CONSEC_LOSSES"}

\* The breaker of gate r is active at time t: tripped and the time since the
\* trip not beyond the cooldown
BreakerActive(r, t) ==
    r.triggered /\ t - r.triggered_at <= circuit_breaker_cooldown_s

\* The daily PnL and the consecutive-loss count of gate r that count on day d
DailyPnlOn(r, d) == IF r.daily_reset_date = d THEN r.daily_pnl ELSE 0

LossCountOn(r, d) == IF r.daily_reset_date = d THEN r.consecutive_losses ELSE 0

\* C5, as claimed: once max_consecutive_losses negative deltas have been
\* recorded in a row, every check_signal made in the cooldown period that
\* follows (and before any manual reset) returns (false, ...).
C5_RejectsForCooldownAfterLossRun ==
    (/\ call.op = "check_signal"
     /\ streak.since >= 0
     /\ now - streak.since <= circuit_breaker_cooldown_s)
    => (verdict.raised \/ ~verdict.allowed)

\* C6, as claimed: the check_signal that follows a manual reset of a tripped
\* breaker is not rejected because of the breaker or the loss counters.
C6_ResetReenables ==
    [][(/\ call.op = "reset_circuit_breaker"
        /\ call.before.triggered
        /\ call'.op = "check_signal")
       => verdict'.code \notin LossCodes]_vars

\* The rejection the claimed order gives for the last check_signal call
C7_FirstThatApplies ==
    LET r == call.before
        cost == call.cand.yes_price * call.cand.max_size
                + call.cand.no_price * call.cand.max_size
    IN IF BreakerActive(r, now) THEN "CIRCUIT_BREAKER"
       ELSE IF DailyPnlOn(r, today) <= -max_daily_loss_usdc THEN "DAILY_LOSS"
       ELSE IF LossCountOn(r, today) >= max_consecutive_losses
       THEN "CONSEC_LOSSES"
       ELSE IF call.total_exp + cost > max_total_exposure_usdc
       THEN "TOTAL_EXPOSURE"
       ELSE IF call.mkt_exp + cost > max_per_market_exposure_usdc
       THEN "MARKET_EXPOSURE"
       ELSE IF call.n_open >= max_open_orders THEN "MAX_ORDERS"
       ELSE "OK"

\* C7, as claimed: every check_signal call returns the first rejection that
\* applies in the order breaker, daily loss, consecutive losses, total
\* exposure, per-market exposure, open orders, and (true, "OK") when none
\* does; the daily-loss and consecutive-loss rejections trip the breaker; a
\* rejection adds one to its own per-reason counter and to no other.
C7_ShortCircuitOrder ==
    call.op = "check_signal" =>
        LET first == C7_FirstThatApplies
        IN /\ ~verdict.raised
           /\ verdict.code = first
           /\ verdict.allowed = (first = "OK")
           /\ first \in {"DAILY_LOSS", "CONSEC_LOSSES"} =>
                 risk.triggered /\ risk.triggered_at = now
           /\ risk.rejection_reasons =
                 [c \in RejectionCodes |->
                     call.before.rejection_reasons[c]
                     + (IF c = first THEN 1 ELSE 0)]

\* C8, as claimed: record_cycle_result adds one to the consecutive-loss
\* counter when pnl < 0 and sets it to zero when pnl >= 0.
C8_CounterStep ==
    call.op = "record_cycle_result" =>
        risk.consecutive_losses =
            IF call.pnl < 0 THEN call.before.consecutive_losses + 1 ELSE 0

\* C8, amended: record_cycle_result sets the counter to zero when pnl >= 0; when
\* pnl < 0 it adds one to the counter, which the daily reset has first put
\* back to zero when the stored reset date is not today.
C8_CounterStepAfterDailyReset ==
    call.op = "record_cycle_result" =>
        risk.consecutive_losses =
            IF call.pnl < 0 THEN LossCountOn(call.before, today) + 1 ELSE 0

\* C8, witness: a non-negative delta recorded after two losses in a row on
\* the same day leaves the counter at zero
C8_ResetAfterLosses ==
    /\ call.op = "record_cycle_result"
    /\ call.pnl >= 0
    /\ call.before.consecutive_losses >= 2
    /\ call.before.daily_reset_date = today
    /\ risk.consecutive_losses = 0

\* C9, as claimed: record_cycle_result and check_signal both leave the stored
\* date at today and the daily PnL at the delta added to today's PnL, which
\* is zero when the stored date was another day.
C9_DailyReset ==
    call.op \in {"record_cycle_result", "check_signal"} =>
        /\ risk.daily_reset_date = today
        /\ risk.daily_pnl = DailyPnlOn(call.before, today) + call.pnl

\* C9, amended: record_cycle_result, and check_signal unless the breaker is
\* active when it is called, leave the stored date at today and the daily PnL
\* at the delta added to today's PnL (zero when the stored date was another
\* day); a check_signal made while the breaker is active changes neither.
C9_DailyResetUnlessBreakerActive ==
    /\ (\/ call.op = "record_cycle_result"
        \/ call.op = "check_signal" /\ ~BreakerActive(call.before, now))
       => /\ risk.daily_reset_date = today
          /\ risk.daily_pnl = DailyPnlOn(call.before, today) + call.pnl
    /\ (call.op = "check_signal" /\ BreakerActive(call.before, now))
       => /\ risk.daily_reset_date = call.before.daily_reset_date
          /\ risk.daily_pnl = call.before.daily_pnl

\* C9, witness: the first record of a new day, made with a loss stored for
\* the day before, leaves the daily PnL at the delta alone
C9_FirstRecordOfNewDay ==
    /\ call.op = "record_cycle_result"
    /\ call.before.daily_reset_date \notin {0, today}
    /\ call.before.daily_pnl < 0
    /\ call.pnl > 0
    /\ risk.daily_pnl = call.pnl
    /\ risk.daily_reset_date = today

(***************************************************************************)
(* The execution controller under the scan loop.  The scan task runs       *)
(* Engine._scan_loop: sync_quotes on the signal of the iteration, then     *)
(* refresh_open_orders.  Between two awaits its code is one step; while it *)
(* waits in an await the control task may run and time may pass.  The      *)
(* awaits of the database are joined to the step before them wherever no   *)
(* other task reads what the step in between writes.                       *)
(***************************************************************************)
InitExec ==
    /\ streak = NoStreak
    /\ now = 0
    /\ today = 1
    /\ risk = RiskInit
    /\ verdict = NoVerdict
    /\ call = NoCall
    /\ ExecInit
    /\ ClientInit
    /\ applied = NoneApplied
    /\ mm = MmInit
    /\ reprice_threshold_bps \in RepriceThresholds

Op(name) == [NoCall EXCEPT !.op = name]

\* The order of the quote that sync_quotes is at
DesiredOrder == QuoteOrders(scan.sig)[scan.i]

DesiredKey ==
    QuoteKey(scan.sig.condition_id, DesiredOrder.token_id, DesiredOrder.side)

\* _scan_loop with a signal: sync_quotes up to the verdict of the risk gate.
\* An exception of the gate ends the iteration in _scan_loop's handler.
ScanQuoteOf(signals) ==
    /\ scan.pc = "sleep"
    /\ ~paused
    /\ risk.total_checks < MaxSyncs
    /\ Len(orders) + 4 <= MaxOrders
    /\ \E sig \in signals :
          LET adjusted == Adjusted(sig)
              exposure == DbExposure(db_positions)
              n_open == DbOpenCount(db_orders)
              res == CheckSignal(risk, now, today, CandidateOf(adjusted),
                                 exposure, exposure, n_open)
          IN /\ AdjustedSize(sig) > 0
             /\ risk' = res.risk
             /\ verdict' = [allowed |-> res.allowed, code |-> res.code,
                            raised |-> res.raised]
             /\ call' = [op |-> "check_signal", pnl |-> 0,
                         cand |-> CandidateOf(adjusted),
                         total_exp |-> exposure, mkt_exp |-> exposure,
                         n_open |-> n_open, before |-> risk]
             /\ scan' = IF res.raised THEN ScanSleep
                        ELSE IF ~res.allowed
                        THEN [ScanSleep EXCEPT !.pc = "refresh_begin"]
                        ELSE [ScanSleep EXCEPT !.pc = "order", !.sig = adjusted,
                                               !.i = 1]
    /\ UNCHANGED <<mm, nvars, total_rejects, late_fills,
                   pvars, now, today, streak, orders, active_quotes, positions,
                   db_orders, db_positions, paused, last_refresh,
                   reprice_threshold_bps, ext, events>>

ScanQuote == ScanQuoteOf(QuoteInputs)

\* _scan_loop without a signal: refresh_open_orders only
ScanNoQuote ==
    /\ scan.pc = "sleep"
    /\ ~paused
    /\ scan' = [ScanSleep EXCEPT !.pc = "refresh_begin"]
    /\ call' = Op("scan")
    /\ UNCHANGED <<mm, nvars, total_rejects, late_fills,
                   pvars, now, today, rvars, orders, active_quotes, positions,
                   db_orders, db_positions, paused, last_refresh,
                   reprice_threshold_bps, ext, events>>

\* A faulty sync_quotes that places the new order without cancelling the
\* order it displaces
SyncOrder_PlacesFirst ==
    /\ scan.pc = "order"
    /\ scan.i <= 4
    /\ LET existing == Get(active_quotes, DesiredKey)
           keep == /\ existing # 0
                   /\ ShouldKeep(orders[existing], DesiredOrder, now,
                                 reprice_threshold_bps)
       IN /\ scan' = IF keep THEN [scan EXCEPT !.i = @ + 1]
                     ELSE [scan EXCEPT !.pc = "place_wait", !.t0 = now]
          /\ call' = [op |-> "reconcile", oid |-> existing,
                      existing |-> IF existing # 0 THEN orders[existing]
                                   ELSE NewRecord(scan.sig, DesiredOrder, 0,
                                                  "NONE"),
                      desired |-> DesiredOrder, kept |-> keep]
    /\ UNCHANGED <<mm, nvars, total_rejects, late_fills,
                   pvars, now, today, rvars, orders, active_quotes, positions,
                   db_orders, db_positions, paused, last_refresh,
                   reprice_threshold_bps, ext, events>>

\* sync_quotes, one desired order: keep the live order of its key, or issue
\* the cancel of that order, or (no live order) issue the placement
SyncOrder ==
    /\ scan.pc = "order"
    /\ scan.i <= 4
    /\ LET existing == Get(active_quotes, DesiredKey)
           keep == /\ existing # 0
                   /\ ShouldKeep(orders[existing], DesiredOrder, now,
                                 reprice_threshold_bps)
       IN /\ scan' = IF keep THEN [scan EXCEPT !.i = @ + 1]
                     ELSE IF existing # 0
                     THEN [scan EXCEPT !.pc = "cancel_wait", !.oid = existing]
                     ELSE [scan EXCEPT !.pc = "place_wait", !.t0 = now]
          /\ call' = [op |-> "reconcile", oid |-> existing,
                      existing |-> IF existing # 0 THEN orders[existing]
                                   ELSE NewRecord(scan.sig, DesiredOrder, 0,
                                                  "NONE"),
                      desired |-> DesiredOrder, kept |-> keep]
    /\ UNCHANGED <<mm, nvars, total_rejects, late_fills,
                   pvars, now, today, rvars, orders, active_quotes, positions,
                   db_orders, db_positions, paused, last_refresh,
                   reprice_threshold_bps, ext, events>>

\* _cancel_order(existing) returns: CANCELLED when the exchange accepted the
\* cancel, unchanged when the call raised; then _place_order makes its
\* record and issues post_order
CancelDone ==
    /\ scan.pc = "cancel_wait"
    /\ \E ok \in BOOLEAN :
          /\ ~ok => events < MaxEvents
          /\ events' = IF ok THEN events ELSE events + 1
          /\ orders' = Cancelled(orders, scan.oid, ok)
          /\ db_orders' = CancelledRow(db_orders, orders, scan.oid, ok)
          /\ call' = [op |-> "cancel_order", oid |-> scan.oid, ok |-> ok]
    /\ scan' = [scan EXCEPT !.pc = "place_wait", !.t0 = now]
    /\ UNCHANGED <<mm, nvars, total_rejects, late_fills,
                   pvars, now, today, rvars, active_quotes, positions, db_positions,
                   paused, last_refresh, reprice_threshold_bps, ext>>

\* A faulty _place_order that does not count the rejections
PlaceDone_RejectNotCounted ==
    /\ scan.pc = "place_wait"
    /\ \E ok \in BOOLEAN :
          /\ ~ok => events < MaxEvents
          /\ events' = IF ok THEN events ELSE events + 1
          /\ LET status == IF ok THEN "OPEN" ELSE "REJECTED"
             IN /\ orders' = Append(orders, NewRecord(scan.sig, DesiredOrder,
                                                     scan.t0, status))
                /\ db_orders' = Append(db_orders, [status |-> status,
                                                   filled_size |-> 0])
          /\ scan' = [scan EXCEPT !.pc = "place_db", !.oid = Len(orders) + 1,
                                  !.clean = @ /\ ok]
          /\ total_rejects' = total_rejects
          /\ call' = [op |-> "place_order", oid |-> Len(orders) + 1, ok |-> ok]
    /\ UNCHANGED <<mm, nvars, late_fills,
                   pvars, now, today, rvars, active_quotes, positions, db_positions,
                   paused, last_refresh, reprice_threshold_bps, ext>>

\* post_order answers: the record is OPEN, or REJECTED and counted in
\* _total_rejects (no orderID in the answer, or the call raised); it joins
\* recent_orders and its row is written
PlaceDone ==
    /\ scan.pc = "place_wait"
    /\ \E ok \in BOOLEAN :
          /\ ~ok => events < MaxEvents
          /\ events' = IF ok THEN events ELSE events + 1
          /\ LET status == IF ok THEN "OPEN" ELSE "REJECTED"
             IN /\ orders' = Append(orders, NewRecord(scan.sig, DesiredOrder,
                                                     scan.t0, status))
                /\ db_orders' = Append(db_orders, [status |-> status,
                                                   filled_size |-> 0])
          /\ scan' = [scan EXCEPT !.pc = "place_db", !.oid = Len(orders) + 1,
                                  !.clean = @ /\ ok]
          /\ total_rejects' = IF ok THEN total_rejects ELSE total_rejects + 1
          /\ call' = [op |-> "place_order", oid |-> Len(orders) + 1, ok |-> ok]
    /\ UNCHANGED <<mm, nvars, late_fills,
                   pvars, now, today, rvars, active_quotes, positions, db_positions,
                   paused, last_refresh, reprice_threshold_bps, ext>>

\* _place_order returns: active_quotes[key] = record
PlaceStored ==
    /\ scan.pc = "place_db"
    /\ active_quotes' = Put(active_quotes, DesiredKey, scan.oid)
    /\ scan' = [scan EXCEPT !.pc = "order", !.i = @ + 1]
    /\ call' = [op |-> "store_order", oid |-> scan.oid]
    /\ UNCHANGED <<mm, nvars, total_rejects, late_fills,
                   pvars, now, today, rvars, orders, positions, db_orders,
                   db_positions, paused, last_refresh, reprice_threshold_bps,
                   ext, events>>

\* The scan task after sync_quotes has returned
SyncReturned == [ScanSleep EXCEPT !.pc = "refresh_begin"]

SyncCall == [op |-> "sync_quotes", sig |-> scan.sig, clean |-> scan.clean]

\* sync_quotes after the last desired order: the stale keys of the
\* condition; the cancel of the first one is issued, or sync_quotes returns
SyncStale ==
    /\ scan.pc = "order"
    /\ scan.i > 4
    /\ LET stale == StaleKeys(active_quotes, scan.sig)
       IN IF stale = <<>>
          THEN /\ scan' = SyncReturned
               /\ call' = SyncCall
          ELSE /\ scan' = [scan EXCEPT !.pc = "stale_wait", !.todo = stale,
                                       !.oid = Get(active_quotes, stale[1])]
               /\ call' = Op("stale_keys")
    /\ UNCHANGED <<mm, nvars, total_rejects, late_fills,
                   pvars, now, today, rvars, orders, active_quotes, positions,
                   db_orders, db_positions, paused, last_refresh,
                   reprice_threshold_bps, ext, events>>

\* The cancel of a stale key returns and the key is popped; the next stale
\* key is looked up with active_quotes[key], a KeyError when the key has
\* gone, which ends the iteration in _scan_loop's handler
StaleDone ==
    /\ scan.pc = "stale_wait"
    /\ \E ok \in BOOLEAN :
          /\ ~ok => events < MaxEvents
          /\ events' = IF ok THEN events ELSE events + 1
          /\ orders' = Cancelled(orders, scan.oid, ok)
          /\ db_orders' = CancelledRow(db_orders, orders, scan.oid, ok)
    /\ active_quotes' = Pop(active_quotes, Head(scan.todo))
    /\ LET rest == Tail(scan.todo)
       IN IF rest = <<>>
          THEN /\ scan' = SyncReturned
               /\ call' = SyncCall
          ELSE IF Get(active_quotes', rest[1]) = 0
          THEN /\ scan' = ScanSleep
               /\ call' = Op("KeyError")
          ELSE /\ scan' = [scan EXCEPT !.todo = rest,
                                       !.oid = Get(active_quotes', rest[1])]
               /\ call' = Op("stale_keys")
    /\ UNCHANGED <<mm, nvars, total_rejects, late_fills,
                   pvars, now, today, rvars, positions, db_positions, paused,
                   last_refresh, reprice_threshold_bps, ext>>

\* refresh_open_orders begins: nothing within quote_refresh_ms of the last
\* refresh, otherwise a pass over a copy of the items of active_quotes
RefreshBegin ==
    /\ scan.pc = "refresh_begin"
    /\ IF now - last_refresh < quote_refresh_ms
       THEN /\ scan' = ScanSleep
            /\ UNCHANGED last_refresh
       ELSE /\ last_refresh' = now
            /\ scan' = [ScanSleep EXCEPT !.pc = "refresh",
                                         !.todo = active_quotes,
                                         !.ref_now = now]
    /\ call' = Op("refresh_begin")
    /\ UNCHANGED <<mm, nvars, total_rejects, late_fills,
                   pvars, now, today, rvars, orders, active_quotes, positions,
                   db_orders, db_positions, paused, reprice_threshold_bps,
                   ext, events>>

\* A faulty refresh_open_orders that asks the exchange for every live order,
\* whatever its age
RefreshOrder_NoTtl ==
    /\ scan.pc = "refresh"
    /\ IF scan.todo = <<>>
       THEN scan' = ScanSleep
       ELSE LET oid == Head(scan.todo).oid
            IN scan' =
                 IF orders[oid].status \notin {"OPEN", "PARTIAL"}
                 THEN [scan EXCEPT !.todo = Tail(@)]
                 ELSE [scan EXCEPT !.pc = "ref_get_wait", !.oid = oid]
    /\ call' = Op("refresh_order")
    /\ UNCHANGED <<mm, nvars, total_rejects, late_fills,
                   pvars, now, today, rvars, orders, active_quotes, positions,
                   db_orders, db_positions, paused, last_refresh,
                   reprice_threshold_bps, ext, events>>

\* refresh_open_orders, one item of the copy: skipped unless OPEN or PARTIAL,
\* cancelled when older than the TTL, otherwise asked for at the exchange
RefreshOrder ==
    /\ scan.pc = "refresh"
    /\ IF scan.todo = <<>>
       THEN scan' = ScanSleep
       ELSE LET oid == Head(scan.todo).oid
            IN scan' =
                 IF orders[oid].status \notin {"OPEN", "PARTIAL"}
                 THEN [scan EXCEPT !.todo = Tail(@)]
                 ELSE IF scan.ref_now - orders[oid].created_at > quote_ttl_ms
                 THEN [scan EXCEPT !.pc = "ref_cancel_wait", !.oid = oid]
                 ELSE [scan EXCEPT !.pc = "ref_get_wait", !.oid = oid]
    /\ call' = Op("refresh_order")
    /\ UNCHANGED <<mm, nvars, total_rejects, late_fills,
                   pvars, now, today, rvars, orders, active_quotes, positions,
                   db_orders, db_positions, paused, last_refresh,
                   reprice_threshold_bps, ext, events>>

\* The cancel of an order past its TTL returns and its key is popped
RefCancelDone ==
    /\ scan.pc = "ref_cancel_wait"
    /\ \E ok \in BOOLEAN :
          /\ ~ok => events < MaxEvents
          /\ events' = IF ok THEN events ELSE events + 1
          /\ orders' = Cancelled(orders, scan.oid, ok)
          /\ db_orders' = CancelledRow(db_orders, orders, scan.oid, ok)
          /\ call' = [op |-> "cancel_order", oid |-> scan.oid, ok |-> ok]
    /\ active_quotes' = Pop(active_quotes, Head(scan.todo).key)
    /\ scan' = [scan EXCEPT !.pc = "refresh", !.todo = Tail(@)]
    /\ UNCHANGED <<mm, nvars, total_rejects, late_fills,
                   pvars, now, today, rvars, positions, db_positions, paused,
                   last_refresh, reprice_threshold_bps, ext>>

\* get_order raised: the order is left as it is
RefGetFailed ==
    /\ scan.pc = "ref_get_wait"
    /\ events < MaxEvents
    /\ events' = events + 1
    /\ scan' = [scan EXCEPT !.pc = "refresh", !.todo = Tail(@)]
    /\ call' = Op("get_order_failed")
    /\ UNCHANGED <<mm, nvars, total_rejects, late_fills,
                   pvars, now, today, rvars, orders, active_quotes, positions,
                   db_orders, db_positions, paused, last_refresh,
                   reprice_threshold_bps, ext>>

\* get_order answers: the order's status and filled_size follow the answer,
\* a positive delta is applied to the position (_apply_fill, which ends in
\* record_cycle_result), the key is popped when the order is done, and the
\* row of the order is updated
RefGetDoneOf(answers, max_events) ==
    /\ scan.pc = "ref_get_wait"
    /\ \E answer \in answers :
          LET o == orders[scan.oid]
              o2 == Refreshed(o, answer)
              delta == FillDelta(o, answer)
              pnl == FillPnl(o.side, o.price, delta)
          IN /\ orders' = [orders EXCEPT ![scan.oid] = o2]
             /\ db_orders' = [db_orders EXCEPT ![scan.oid] =
                                 [status |-> o2.status,
                                  filled_size |-> o2.filled_size]]
             /\ active_quotes' = IF RefreshPops(o, answer)
                                 THEN Pop(active_quotes, Head(scan.todo).key)
                                 ELSE active_quotes
             /\ IF delta > 0
                THEN /\ positions' = [positions EXCEPT ![o.outcome] =
                          PositionAfter(@, o.side, o.price, delta)]
                     /\ db_positions' = [db_positions EXCEPT ![o.outcome] =
                          RowAfter(positions[o.outcome], o.side, o.price, delta)]
                     /\ cumulative_pnl' = cumulative_pnl + pnl
                     /\ spread_capture_pnl' = spread_capture_pnl + pnl
                     /\ risk' = RecordCycleResult(risk, today, pnl)
                ELSE UNCHANGED <<positions, db_positions, risk, pvars>>
             /\ answer # PlainAnswer => events < max_events
             /\ events' = IF answer # PlainAnswer THEN events + 1 ELSE events
             /\ applied' = [applied EXCEPT ![scan.oid] = @ + delta]
             /\ call' = [op |-> "get_order", oid |-> scan.oid,
                         answer |-> answer, delta |-> delta, pnl |-> pnl,
                         before |-> risk]
    /\ scan' = [scan EXCEPT !.pc = "refresh", !.todo = Tail(@)]
    /\ UNCHANGED <<mm, http, ws, total_rejects, late_fills,
                   now, today, verdict, streak, paused, last_refresh,
                   reprice_threshold_bps, ext>>

RefGetDone == RefGetDoneOf(GetOrderAnswers(orders[scan.oid]), MaxEvents)

(***************************************************************************)
(* The control task (Engine.cancel_all) and the clock.                     *)
(***************************************************************************)
\* ExecutionController.cancel_all issues clob.cancel_all_orders
CancelAllStart ==
    /\ Suspended
    /\ ext.pc = "idle"
    /\ ext.cancel_alls < MaxCancelAll
    /\ ext' = [ext EXCEPT !.pc = "cancel_all_wait", !.cancel_alls = @ + 1]
    /\ call' = Op("cancel_all_start")
    /\ UNCHANGED <<mm, nvars, total_rejects, late_fills,
                   pvars, now, today, rvars, orders, active_quotes, positions,
                   db_orders, db_positions, paused, last_refresh,
                   reprice_threshold_bps, scan, events>>

\* cancel_all_orders answers: every order of recent_orders that is OPEN or
\* PENDING becomes CANCELLED and active_quotes is cleared; nothing when the
\* call raised
CancelAllMarked(os) ==
    [n \in 1..Len(os) |->
        IF os[n].status \in {"OPEN", "PENDING"}
        THEN [os[n] EXCEPT !.status = "CANCELLED"] ELSE os[n]]

CancelAllCount(os) ==
    Cardinality({n \in 1..Len(os) : os[n].status \in {"OPEN", "PENDING"}})

CancelAllDone ==
    /\ Suspended
    /\ ext.pc = "cancel_all_wait"
    /\ ext' = [ext EXCEPT !.pc = "idle"]
    /\ \E ok \in BOOLEAN :
          /\ ~ok => events < MaxEvents
          /\ events' = IF ok THEN events ELSE events + 1
          /\ orders' = IF ok THEN CancelAllMarked(orders) ELSE orders
          /\ active_quotes' = IF ok THEN <<>> ELSE active_quotes
          /\ call' = [op |-> "cancel_all", ok |-> ok,
                      n |-> IF ok THEN CancelAllCount(orders) ELSE 0]
    /\ UNCHANGED <<mm, nvars, total_rejects, late_fills,
                   pvars, now, today, rvars, positions, db_orders, db_positions,
                   paused, last_refresh, reprice_threshold_bps, scan>>

\* Time passes while the scan task sleeps between two iterations
Clock ==
    /\ scan.pc = "sleep"
    /\ now < MaxTime
    /\ now' = now + 1
    /\ call' = Op("tick")
    /\ UNCHANGED <<today, rvars, evars>>

ScanTask ==
    \/ ScanQuote \/ ScanNoQuote
    \/ SyncOrder \/ CancelDone \/ PlaceDone \/ PlaceStored
    \/ SyncStale \/ StaleDone
    \/ RefreshBegin \/ RefreshOrder
    \/ RefCancelDone \/ RefGetFailed \/ RefGetDone

Next == ScanTask \/ Clock

Spec == InitExec /\ [][Next]_vars

(***************************************************************************)
(* The same with the control task at work: cancel_all comes in at the      *)
(* awaits of the scan task, which quotes one market on one or the other    *)
(* NO token.                                                               *)
(***************************************************************************)
InitRace ==
    /\ InitExec
    /\ reprice_threshold_bps = 5

RaceQuoteInputs == {BaseQuote, [BaseQuote EXCEPT !.no_token = "no2"]}

ScanQuoteRace == ScanQuoteOf(RaceQuoteInputs)

ScanTaskRace ==
    \/ ScanQuoteRace \/ ScanNoQuote
    \/ SyncOrder \/ CancelDone \/ PlaceDone \/ PlaceStored
    \/ SyncStale \/ StaleDone
    \/ RefreshBegin \/ RefreshOrder
    \/ RefCancelDone \/ RefGetFailed \/ RefGetDone

ControlTask == CancelAllStart \/ CancelAllDone

NextRace == ScanTaskRace \/ ControlTask \/ Clock

SpecRace == InitRace /\ [][NextRace]_vars

(***************************************************************************)
(* The scan task with an exchange that matches an order while the cancel   *)
(* of that order is on its way: the match is what a later get_order of the *)
(* order would report (status MATCHED, size_matched the order's size).     *)
(***************************************************************************)
MaxLateFills == 1

\* A cancel of the scan task is in flight: the one of a displaced order
\* (sync_quotes), of a stale key (sync_quotes) or of an order past its TTL
\* (refresh_open_orders)
CancelInFlight == scan.pc \in {"cancel_wait", "stale_wait", "ref_cancel_wait"}

\* The exchange matches the order whose cancel is in flight
ExchangeLateFill ==
    /\ CancelInFlight
    /\ orders[scan.oid].status \in {"OPEN", "PARTIAL"}
    /\ scan.oid \notin late_fills
    /\ Cardinality(late_fills) < MaxLateFills
    /\ late_fills' = late_fills \cup {scan.oid}
    /\ call' = [op |-> "late_fill", oid |-> scan.oid]
    /\ UNCHANGED <<mm, nvars, total_rejects,
                   pvars, now, today, rvars, orders, active_quotes, positions,
                   db_orders, db_positions, paused, last_refresh,
                   reprice_threshold_bps, scan, ext, events>>

NextLate == ScanTaskRace \/ Clock \/ ExchangeLateFill

\* The scan task is a running asyncio task: it takes its next step whenever
\* it can; time passes; the exchange matches when it does
SpecLate ==
    InitRace /\ [][NextLate]_vars /\ WF_vars(ScanTaskRace) /\ WF_vars(Clock)

(***************************************************************************)
(* The scan task with an exchange that answers get_order with any status   *)
(* and any size_matched, one placed quote, several answers in a row.       *)
(***************************************************************************)
MaxPolls == 2

RemoteStatuses == {"LIVE", "MATCHED", "CANCELLED", "EXPIRED"}

\* get_order's answer: resp["status"] and resp["size_matched"], the latter
\* up to more than the size of the order
RemoteAnswers(o) ==
    [status : RemoteStatuses, size_matched : 0..(o.size + 1)]

\* The quote of the harness: two fills of one unit of its YES bid stay short
\* of max_daily_loss_usdc
RefreshQuote == [BaseQuote EXCEPT !.yes_bid = 400]

ScanQuoteRefresh ==
    ScanQuoteOf({RefreshQuote, [RefreshQuote EXCEPT !.no_token = "no2"]})

RefGetDoneRemote == RefGetDoneOf(RemoteAnswers(orders[scan.oid]), MaxPolls)

ScanTaskRefresh ==
    \/ ScanQuoteRefresh \/ ScanNoQuote
    \/ SyncOrder \/ CancelDone \/ PlaceDone \/ PlaceStored
    \/ SyncStale \/ StaleDone
    \/ RefreshBegin \/ RefreshOrder
    \/ RefCancelDone \/ RefGetFailed \/ RefGetDoneRemote

NextRefresh == ScanTaskRefresh \/ Clock

SpecRefresh == InitRace /\ [][NextRefresh]_vars

(***************************************************************************)
(* The book store under streaming updates and quote generation: the        *)
(* updates Engine._on_book_update gets, the generate_quotes call of the    *)
(* scan loop, and the clock.                                               *)
(***************************************************************************)
BookOf(markets, token_id) ==
    LET n == MarketOf(markets, token_id)
    IN IF n = 0 THEN NoBook
       ELSE IF markets[n].yes_token_id = token_id THEN markets[n].yes_book
       ELSE markets[n].no_book

Item(price, size) == [price |-> price, size |-> size]

\* The ladders of the payloads, as the exchange sends them (in any order)
BidPayloads ==
    { << Item(390, 150), Item(401, 200) >>,
      << Item(411, 190) >>,
      << Item(551, 200) >> }

AskPayloads == { << Item(520, 160), Item(500, 180) >> }

UpdateTokens == {"yes", "no", "zz"}

Payload(asset_id, keys, bids, asks) ==
    [asset_id |-> asset_id, keys |-> keys,
     bids |-> IF "bids" \in keys THEN bids ELSE <<>>,
     asks |-> IF "asks" \in keys THEN asks ELSE <<>>,
     buys |-> IF "buys" \in keys THEN bids ELSE <<>>,
     sells |-> IF "sells" \in keys THEN asks ELSE <<>>]

\* The sides an update names: both, under either pair of names, or one
PayloadKeys == { {"bids", "asks"}, {"buys", "sells"}, {"bids"}, {"sells"} }

BookUpdates ==
    { Payload(a, k, b, s) :
        a \in UpdateTokens, k \in PayloadKeys,
        b \in BidPayloads, s \in AskPayloads }

\* inventory_by_condition(): the YES position held on c1
InventoryInputs == {0, 400}

InventoryOf(yes_pos) ==
    [c \in RegistryConditions |->
        [YES |-> IF c = "c1" THEN yes_pos ELSE 0, NO |-> 0]]

InitBooks ==
    /\ InitExec
    /\ reprice_threshold_bps = 5

\* A streaming update arrives: Engine._on_book_update
BookUpdate ==
    /\ mm.updates < MaxUpdates
    /\ \E update \in BookUpdates :
          LET res == OnBookUpdate(mm.markets, update, now)
          IN /\ mm' = [mm EXCEPT !.markets = res.markets, !.updates = @ + 1]
             /\ call' = [op |-> "on_book_update", update |-> update,
                         returned |-> res.returned, before |-> mm.markets]
    /\ UNCHANGED <<now, today, rvars, cvars, pvars, nvars>>

\* The scan loop calls generate_quotes with the inventory and the limit
ScanGenerate ==
    /\ mm.scan_count < MaxQuoteScans
    /\ \E yes_pos \in InventoryInputs :
          /\ mm' = GenerateQuotes(mm, InventoryOf(yes_pos),
                                  position_limit_per_outcome, now)
          /\ call' = [op |-> "generate_quotes",
                      signals |-> GeneratedSignals(mm.markets,
                                      InventoryOf(yes_pos),
                                      position_limit_per_outcome, now),
                      yes_pos |-> yes_pos, before |-> mm.markets]
    /\ UNCHANGED <<now, today, rvars, cvars, pvars, nvars>>

NextBooks == BookUpdate \/ ScanGenerate \/ Clock

SpecBooks == InitBooks /\ [][NextBooks]_vars

(***************************************************************************)
(* Properties of the book store and of quote generation.                   *)
(***************************************************************************)
RegistryTokens ==
    UNION {{Registry[n].yes_token_id, Registry[n].no_token_id} :
              n \in 1..Len(Registry)}

\* The last step was a streaming update for a token of the registry
UpdatedKnown ==
    /\ call.op = "on_book_update"
    /\ call.update.asset_id \in RegistryTokens

\* C15, as claimed: an update that carries one side only replaces that side
\* of the token's snapshot and leaves the other side as it was before.
C15_OtherSideKept ==
    (UpdatedKnown /\ call.update.keys \in {{"bids"}, {"sells"}}) =>
        LET old == BookOf(call.before, call.update.asset_id)
            new == BookOf(mm.markets, call.update.asset_id)
        IN IF call.update.keys = {"bids"}
           THEN /\ new.bids = SortLevels(Levels(call.update.bids), TRUE)
                /\ new.asks = old.asks
           ELSE /\ new.asks = SortLevels(Levels(call.update.sells), FALSE)
                /\ new.bids = old.bids

\* The update with the same contents under the names "bids" and "asks"
Renamed(update) ==
    [asset_id |-> update.asset_id,
     keys |-> (IF "buys" \in update.keys THEN {"bids"} ELSE {})
              \cup (IF "sells" \in update.keys THEN {"asks"} ELSE {}),
     bids |-> update.buys, asks |-> update.sells,
     buys |-> <<>>, sells |-> <<>>]

\* C16: an update that names its sides "buys" and "sells" leaves the book
\* store as the update with the same contents named "bids" and "asks" would
\* have left it, from the same prior state.
C16_BuysSellsAsBidsAsks ==
    (call.op = "on_book_update" /\ call.update.keys \subseteq {"buys", "sells"})
        => mm.markets = OnBookUpdate(call.before, Renamed(call.update),
                                     now).markets

\* C16, witness: a {buys, sells} update has replaced a snapshot that held
\* another bid ladder
C16_BuysSellsReplacedBook ==
    /\ UpdatedKnown
    /\ call.update.keys = {"buys", "sells"}
    /\ BookOf(call.before, call.update.asset_id) # NoBook
    /\ BookOf(call.before, call.update.asset_id).bids
          # BookOf(mm.markets, call.update.asset_id).bids
    /\ BookOf(mm.markets, call.update.asset_id).asks # <<>>

\* The ladder is in price order, descending or ascending
InOrder(levels, reverse) ==
    \A i, j \in 1..Len(levels) :
        i < j => ~ComesBefore(levels[j], levels[i], reverse)

\* C17: update_book with the payload it has just applied to the token leaves
\* a snapshot with the same bids and asks as the first application did; the
\* bids are sorted by price descending and the asks ascending.
C17_UpdateIdempotent ==
    UpdatedKnown =>
        LET once == BookOf(mm.markets, call.update.asset_id)
            twice == BookOf(UpdateBook(mm.markets, call.update.asset_id,
                                       BookData(call.update), now).markets,
                            call.update.asset_id)
        IN /\ twice.bids = once.bids
           /\ twice.asks = once.asks
           /\ InOrder(once.bids, TRUE)
           /\ InOrder(once.asks, FALSE)

\* C17, witness: an update with two bid levels sent in ascending order and
\* two ask levels sent in descending order has been applied
C17_UnsortedPayloadApplied ==
    /\ UpdatedKnown
    /\ call.update.keys = {"bids", "asks"}
    /\ Len(call.update.bids) = 2
    /\ call.update.bids[1].price < call.update.bids[2].price
    /\ call.update.asks[1].price > call.update.asks[2].price
    /\ BookOf(mm.markets, call.update.asset_id).bids
          = <<  <<401, 200>>, <<390, 150>>  >>

\* C18: a book update for a token of no market of the registry returns None
\* and changes no YES and no NO book.
C18_UnknownTokenIgnored ==
    (/\ call.op = "on_book_update"
     /\ call.update.asset_id \notin RegistryTokens)
        => /\ call.returned = NoBook
           /\ mm.markets = call.before

\* C18, witness: an update for an unknown token arrived when a book was held
C18_UnknownTokenAfterBook ==
    /\ call.op = "on_book_update"
    /\ call.update.asset_id = "zz"
    /\ BookOf(mm.markets, "yes") # NoBook

\* The market of the registry that a signal quotes, as generate_quotes saw it
MarketQuoted(markets, sig) ==
    markets[CHOOSE n \in 1..Len(markets) :
               markets[n].condition_id = sig.condition_id]

\* C19: every signal generate_quotes returns is for a market that is active
\* and ready at that moment: both books are there and neither is older than
\* the staleness horizon.
C19_QuotesOnlyReadyMarkets ==
    call.op = "generate_quotes" =>
        \A i \in 1..Len(call.signals) :
            LET mkt == MarketQuoted(call.before, call.signals[i])
            IN /\ mkt.active
               /\ mkt.yes_book # NoBook
               /\ mkt.no_book # NoBook
               /\ now - mkt.yes_book.timestamp <= price_staleness_ms
               /\ now - mkt.no_book.timestamp <= price_staleness_ms

\* C19, witness: a quote was generated from a book whose age is the horizon
C19_QuotedAtHorizon ==
    /\ call.op = "generate_quotes"
    /\ call.signals # <<>>
    /\ now - MarketQuoted(call.before, call.signals[1]).yes_book.timestamp
          = price_staleness_ms

\* Both sides are populated and the best bid is not below the best ask
Crossed(book) ==
    /\ book.bids # <<>>
    /\ book.asks # <<>>
    /\ BestBid(book) >= BestAsk(book)

\* C20, as claimed: generate_quotes returns no signal for a market that
\* holds a crossed or locked book.
C20_NoQuoteFromCrossedBook ==
    call.op = "generate_quotes" =>
        \A i \in 1..Len(call.signals) :
            LET mkt == MarketQuoted(call.before, call.signals[i])
            IN ~Crossed(mkt.yes_book) /\ ~Crossed(mkt.no_book)

(***************************************************************************)
(* _quote_market on its own: generate_quotes on the first market of the    *)
(* registry, whose two books are drawn from bounded sets of tops, under    *)
(* bounded inventories and inventory limits.                               *)
(***************************************************************************)
\* Tops of the YES book (best bid, best ask, the size of both): a mid of
\* 0.50, a mid with and one without a half thousandth, and tops by the two
\* ends of the price range
YesTops ==
    { <<499, 501, 200>>, <<401, 500, 200>>, <<400, 500, 200>>,
      <<989, 990, 200>>, <<5, 14, 10000>>, <<995, 999, 200>> }

NoTops == { <<401, 500, 200>>, <<401, 500, 150>>, <<400, 500, 200>> }

\* The book data of a top: one level a side
TopData(top) ==
    [keys |-> {"bids", "asks"},
     bids |-> << Item(top[1], top[3]) >>,
     asks |-> << Item(top[2], top[3]) >>]

\* inventory_by_condition(): the YES position on c1, and the inventory_limit
\* generate_quotes is called with
QuoteInventories == {0, 80}

QuoteLimits == {0, 100}

\* The exact price n / d lies half way between two thousandths: there the
\* binary float decides which way round() goes
HalfWay(n, d) == 2 * (n % d) = d

OnATie(book, ratio) ==
    \/ HalfWay(MidTimes2(book) * (20000 * ratio.den
                  - quote_spread_bps * (ratio.den + ratio.num)),
               40000 * ratio.den)
    \/ HalfWay(MidTimes2(book) * (20000 * ratio.den
                  + quote_spread_bps * (ratio.den + ratio.num)),
               40000 * ratio.den)

\* The registry after update_book stored a YES and a NO book of the first
\* market at time 0
InitQuote ==
    /\ streak = NoStreak
    /\ now = 0
    /\ today = 1
    /\ risk = RiskInit
    /\ verdict = NoVerdict
    /\ call = NoCall
    /\ ExecInit
    /\ ClientInit
    /\ applied = NoneApplied
    /\ reprice_threshold_bps = 5
    /\ \E yes \in YesTops, no \in NoTops :
          mm = [MmInit EXCEPT !.markets =
                   UpdateBook(UpdateBook(MmInit.markets, "yes",
                                         TopData(yes), 0).markets,
                              "no", TopData(no), 0).markets]

\* generate_quotes(inventory, inventory_limit), on inputs whose exact prices
\* are not half way between two thousandths
QuoteScan ==
    /\ mm.scan_count < MaxQuoteScans
    /\ \E yes_pos \in QuoteInventories, limit \in QuoteLimits :
          LET ratio == SkewRatio(InventoryOf(yes_pos)["c1"], limit)
          IN /\ ~OnATie(mm.markets[1].yes_book, ratio)
             /\ ~OnATie(mm.markets[1].no_book, ratio)
             /\ mm' = GenerateQuotes(mm, InventoryOf(yes_pos), limit, now)
             /\ call' = [op |-> "generate_quotes",
                         signals |-> GeneratedSignals(mm.markets,
                                         InventoryOf(yes_pos), limit, now),
                         yes_pos |-> yes_pos, limit |-> limit,
                         before |-> mm.markets]
    /\ UNCHANGED <<now, today, rvars, cvars, pvars, nvars>>

SpecQuote == InitQuote /\ [][QuoteScan]_vars

(***************************************************************************)
(* Properties of _quote_market.                                            *)
(***************************************************************************)
\* The skew ratio of the last generate_quotes call for the first market
CallRatio == SkewRatio(InventoryOf(call.yes_pos)["c1"], call.limit)

\* Clamping and rounding leave the bid of a book at or above its ask
Collapsed(book, ratio) == QuoteBid(book, ratio) >= QuoteAsk(book, ratio)

\* C21: every signal generate_quotes returns has its four prices between
\* 0.01 and 0.99 in whole thousandths, with the bid strictly below the ask on
\* both outcomes; and a ready market on which clamping and rounding bring the
\* bid to or above the ask on either outcome gets no signal at all.
C21_QuotesWellFormed ==
    call.op = "generate_quotes" =>
        /\ \A i \in 1..Len(call.signals) :
              LET sig == call.signals[i]
              IN /\ {sig.yes_bid, sig.yes_ask, sig.no_bid, sig.no_ask}
                        \subseteq 10..990
                 /\ sig.yes_bid < sig.yes_ask
                 /\ sig.no_bid < sig.no_ask
        /\ \A n \in 1..Len(call.before) :
              LET mkt == call.before[n]
              IN (/\ IsReady(mkt, now, price_staleness_ms)
                  /\ \/ Collapsed(mkt.yes_book, CallRatio)
                     \/ Collapsed(mkt.no_book, CallRatio))
                 => \A i \in 1..Len(call.signals) :
                       call.signals[i].condition_id # mkt.condition_id

\* C21, witness: a signal was returned whose YES ask was clamped to 0.99
C21_ClampedQuoteEmitted ==
    /\ call.op = "generate_quotes"
    /\ call.signals # <<>>
    /\ call.signals[1].yes_ask = 990
    /\ MidTimes2(call.before[1].yes_book)
          * (20000 * CallRatio.den
               + quote_spread_bps * (CallRatio.den + CallRatio.num))
          > 990 * 40000 * CallRatio.den

\* The inventory scenario: generate_quotes with inventory limit 100 and a YES
\* position of 80 on a first market that is ready and liquid, with a YES mid
\* of 0.50
InventoryScenario ==
    /\ call.op = "generate_quotes"
    /\ call.limit = 100
    /\ call.yes_pos = 80
    /\ IsReady(call.before[1], now, price_staleness_ms)
    /\ ~TooThin(call.before[1].yes_book)
    /\ ~TooThin(call.before[1].no_book)
    /\ MidTimes2(call.before[1].yes_book) = 1000

\* The least of the four best sizes of the first market, in thousandths
LeastTopSize ==
    1000 * Min(Min(BestBidSize(call.before[1].yes_book),
                   BestAskSize(call.before[1].yes_book)),
               Min(BestBidSize(call.before[1].no_book),
                   BestAskSize(call.before[1].no_book)))

\* C22, as claimed: in the inventory scenario the skew is 0.8, the half
\* spread 0.00045, and the quote has its YES orders at 0.4996 and 0.5004 with
\* a size of 0.2 times the least top-of-book size.
C22_ScenarioAsClaimed ==
    InventoryScenario =>
        /\ CallRatio = [num |-> 4, den |-> 5]
        /\ HalfSpread(call.before[1].yes_book, CallRatio) = 450
        /\ call.signals # <<>>
        /\ 10 * call.signals[1].yes_bid = 4996
        /\ 10 * call.signals[1].yes_ask = 5004
        /\ 5 * call.signals[1].max_size = LeastTopSize

\* C22, amended: in the inventory scenario the skew is 0.8, the half spread
\* 0.0009, and the quote has its YES orders at 0.499 and 0.501 with a size of
\* 0.2 times the least top-of-book size.
C22_InventoryScenario ==
    InventoryScenario =>
        /\ CallRatio = [num |-> 4, den |-> 5]
        /\ HalfSpread(call.before[1].yes_book, CallRatio) = 900
        /\ call.signals # <<>>
        /\ call.signals[1].condition_id = "c1"
        /\ call.signals[1].yes_bid = 499
        /\ call.signals[1].yes_ask = 501
        /\ 5 * call.signals[1].max_size = LeastTopSize

\* C22, witness: the inventory scenario happened and a quote came out of it
C22_ScenarioQuoted ==
    /\ InventoryScenario
    /\ call.signals # <<>>
    /\ call.signals[1].max_size > 0

(***************************************************************************)
(* _apply_fill on its own: fills of the four orders of a quote, applied    *)
(* one after the other to the positions, the PnL counters, the positions   *)
(* table and the risk gate.                                                *)
(***************************************************************************)
FillOrders == {QuoteOrders(Adjusted(BaseQuote))[n] : n \in 1..4}

InitFills ==
    /\ InitExec
    /\ reprice_threshold_bps = 5

\* refresh_open_orders found `filled` more of the order matched: _apply_fill
ApplyFill ==
    /\ events < MaxFills
    /\ \E o \in FillOrders, filled \in 1..order_size_usdc :
          LET pnl == FillPnl(o.side, o.price, filled)
          IN /\ positions' = [positions EXCEPT ![o.outcome] =
                    PositionAfter(@, o.side, o.price, filled)]
             /\ db_positions' = [db_positions EXCEPT ![o.outcome] =
                    RowAfter(positions[o.outcome], o.side, o.price, filled)]
             /\ cumulative_pnl' = cumulative_pnl + pnl
             /\ spread_capture_pnl' = spread_capture_pnl + pnl
             /\ risk' = RecordCycleResult(risk, today, pnl)
             /\ call' = [op |-> "apply_fill", order |-> o, filled |-> filled,
                         pnl |-> pnl, before |-> risk,
                         position |-> positions[o.outcome],
                         cumulative |-> cumulative_pnl,
                         spread_capture |-> spread_capture_pnl]
    /\ events' = events + 1
    /\ UNCHANGED <<mm, nvars, total_rejects, late_fills,
                   now, today, verdict, streak, orders, active_quotes,
                   db_orders, paused, last_refresh, reprice_threshold_bps,
                   scan, ext>>

SpecFills == InitFills /\ [][ApplyFill]_vars

(***************************************************************************)
(* Properties of _apply_fill.                                              *)
(***************************************************************************)
\* C11: whenever a fill brings the size of a position to exactly zero, the
\* average price of the position is zero after it.
C11_FlatPositionHasNoAverage ==
    (call.op = "apply_fill" /\ positions[call.order.outcome].size = 0)
        => positions[call.order.outcome].avg_price = 0

\* C11, witness: a fill has brought a position with an average price back
\* to size zero
C11_FilledBackToZero ==
    /\ call.op = "apply_fill"
    /\ call.position.size # 0
    /\ call.position.avg_price # 0
    /\ positions[call.order.outcome].size = 0

\* C12: a fill of d > 0 on an order of price p moves the size of the
\* position of the order's outcome by +d for a BUY and by -d for a SELL,
\* adds d * p * (+1 for SELL, -1 for BUY) to the cumulative PnL and to the
\* spread-capture PnL, and hands that delta to record_cycle_result.
C12_FillBookkeeping ==
    call.op = "apply_fill" =>
        LET d == call.filled
            p == call.order.price
            delta == IF call.order.side = "SELL" THEN d * p ELSE 0 - d * p
        IN /\ positions[call.order.outcome].size
                 = call.position.size
                     + (IF call.order.side = "BUY" THEN d ELSE 0 - d)
           /\ cumulative_pnl = call.cumulative + delta
           /\ spread_capture_pnl = call.spread_capture + delta
           /\ call.pnl = delta
           /\ risk = RecordCycleResult(call.before, today, delta)

\* C12, witness: a SELL at 0.460 was filled by 2 after the position was in
\* place: PnL + 0.920, position lower by 2
C12_SellFilled ==
    /\ call.op = "apply_fill"
    /\ call.order.side = "SELL"
    /\ call.order.price = 460
    /\ call.filled = 2
    /\ call.position.held
    /\ cumulative_pnl = call.cumulative + 920

(***************************************************************************)
(* The scan loop with the control task pausing and resuming the executor   *)
(* (Engine.pause, Engine.resume) at the awaits of the scan task.           *)
(***************************************************************************)
\* Engine.pause
Pause ==
    /\ Suspended
    /\ ext.pc = "idle"
    /\ ~paused
    /\ ext.pauses < MaxPauses
    /\ paused' = TRUE
    /\ ext' = [ext EXCEPT !.pauses = @ + 1]
    /\ call' = Op("pause")
    /\ UNCHANGED <<mm, nvars, total_rejects, late_fills,
                   pvars, now, today, rvars, orders, active_quotes,
                   positions, db_orders, db_positions, last_refresh,
                   reprice_threshold_bps, scan, events>>

\* Engine.resume: the executor is active again and the breaker is reset
Resume ==
    /\ Suspended
    /\ ext.pc = "idle"
    /\ paused
    /\ paused' = FALSE
    /\ risk' = ResetCircuitBreaker(risk)
    /\ streak' = [streak EXCEPT !.since = -1]
    /\ call' = Op("resume")
    /\ UNCHANGED <<mm, nvars, total_rejects, late_fills,
                   pvars, now, today, verdict, orders, active_quotes,
                   positions, db_orders, db_positions, last_refresh,
                   reprice_threshold_bps, scan, ext, events>>

\* _scan_loop while the executor is paused: the iteration backfills books
\* and goes to sleep again, with no call of the executor
ScanPaused ==
    /\ scan.pc = "sleep"
    /\ paused
    /\ call' = Op("scan_paused")
    /\ UNCHANGED <<mm, nvars, total_rejects, late_fills,
                   pvars, now, today, rvars, orders, active_quotes,
                   positions, db_orders, db_positions, paused, last_refresh,
                   reprice_threshold_bps, scan, ext, events>>

ScanTaskPause == ScanTaskRace \/ ScanPaused

PauseTask == Pause \/ Resume

NextPause == ScanTaskPause \/ PauseTask \/ Clock

SpecPause == InitRace /\ [][NextPause]_vars

\* The scan task is a running asyncio task: it takes its next step whenever
\* it can; time passes; pause and resume come when the operator sends them
SpecPauseFair ==
    InitRace /\ [][NextPause]_vars /\ WF_vars(ScanTaskPause) /\ WF_vars(Clock)

(***************************************************************************)
(* Properties of the paused executor.                                      *)
(***************************************************************************)
\* A place request goes to the exchange in this step: _place_order reaches
\* its post_order call
PlaceIssued == scan.pc # "place_wait" /\ scan'.pc = "place_wait"

\* C13, as claimed: from the step that sets the paused flag to the step that
\* clears it no place request is issued, not even by a sync_quotes call that
\* was waiting in an await when pause() ran.
C13_NoPlacementWhilePaused ==
    [][paused => ~PlaceIssued]_vars

\* A live order of the live-order map is older than the quote TTL
StaleLive ==
    \E n \in 1..Len(active_quotes) :
        /\ orders[active_quotes[n].oid].status \in LiveStatuses
        /\ now - orders[active_quotes[n].oid].created_at > quote_ttl_ms

\* C14, as claimed: while the executor is paused the scan loop keeps running
\* refresh passes, so a live order older than the quote TTL is eventually
\* cancelled and dropped without the executor being resumed.
C14_ExpiredCancelledWhilePaused ==
    (paused /\ StaleLive) ~> (~paused \/ ~StaleLive)

(***************************************************************************)
(* CLOBClient on its own: the requests of its callers, one at a time, and  *)
(* the status codes the exchange answers them with.                        *)
(***************************************************************************)
MaxRequests == 4
MaxAttempts == 3

\* asyncio.sleep(1) of _get, in seconds
RateLimitSleep == 1

\* The operations of the client the engine calls, and the helper each goes
\* through
ClientOps ==
    {"get_order_book", "get_order", "post_order", "cancel_order",
     "cancel_all_orders"}

HelperOf(op) ==
    IF op \in {"get_order_book", "get_order"} THEN "GET"
    ELSE IF op = "post_order" THEN "POST"
    ELSE "DELETE"

HttpStatuses == {200, 429, 500}

\* The requests sent so far for the call under way
Attempts == Len(http.answers) + (IF http.pc = "sent" THEN 1 ELSE 0)

InitHttp ==
    /\ InitExec
    /\ reprice_threshold_bps = 5

\* A caller awaits an operation: _get, _post or _delete sends the request
HttpRequest ==
    /\ http.pc \in {"idle", "done"}
    /\ http.calls < MaxRequests
    /\ \E op \in ClientOps :
          http' = [HttpIdle EXCEPT !.pc = "sent", !.op = op,
                                   !.method = HelperOf(op),
                                   !.calls = http.calls + 1]
    /\ call' = Op("http_request")
    /\ UNCHANGED <<now, today, rvars, cvars, pvars, mm, ws, applied>>

\* The exchange answers: _get sleeps on 429 before it calls itself again;
\* otherwise raise_for_status() raises on 429 and 500, and any helper returns
\* the body on 200
HttpAnswer ==
    /\ http.pc = "sent"
    /\ \E status \in HttpStatuses :
          http' = [http EXCEPT
                     !.answers = Append(@, status),
                     !.pc = IF http.method = "GET" /\ status = 429
                            THEN "sleep" ELSE "done",
                     !.result = IF status = 200 THEN "ok"
                                ELSE IF http.method = "GET" /\ status = 429
                                THEN ""
                                ELSE "error"]
    /\ call' = Op("http_answer")
    /\ UNCHANGED <<now, today, rvars, cvars, pvars, mm, ws, applied>>

\* The sleep of _get is over: return await self._get(path, params) sends the
\* request again
HttpRetry ==
    /\ http.pc = "sleep"
    /\ Len(http.answers) < MaxAttempts
    /\ http' = [http EXCEPT !.pc = "sent", !.slept = @ + RateLimitSleep]
    /\ call' = Op("http_retry")
    /\ UNCHANGED <<now, today, rvars, cvars, pvars, mm, ws, applied>>

NextHttp == HttpRequest \/ HttpAnswer \/ HttpRetry

SpecHttp == InitHttp /\ [][NextHttp]_vars

(***************************************************************************)
(* Properties of CLOBClient.                                               *)
(***************************************************************************)
\* C24, as claimed: a request answered with 429 is sent again once, after a
\* sleep of one second; a second 429 is surfaced to the caller as a failure;
\* no call sends more than two requests.
C24_RetriesOnceOn429 ==
    /\ Attempts <= 2
    /\ http.answers = <<429>> => http.pc = "sleep"
    /\ (http.pc = "sent" /\ Len(http.answers) = 1) => http.slept = 1
    /\ Len(http.answers) = 2 =>
          /\ http.pc = "done"
          /\ http.answers[2] = 429 => http.result = "error"

(***************************************************************************)
(* WebSocketClient on its own: its connection loop, the connections that   *)
(* open and break, and the subscribe, unsubscribe and stop calls of the    *)
(* engine.                                                                 *)
(***************************************************************************)
MaxReconnects == 7
MaxFrames == 1
MaxSubscribes == 3

\* The tokens subscribe() is called with for a market of the registry
WsTokens(c) ==
    LET mkt == Registry[CHOOSE n \in 1..Len(Registry) :
                           Registry[n].condition_id = c]
    IN {mkt.yes_token_id, mkt.no_token_id}

\* A faulty all_tokens that holds the tokens of one market only
AllTokens_OneMarket(subscriptions) ==
    IF subscriptions = {} THEN {}
    ELSE WsTokens(CHOOSE c \in subscriptions : TRUE)

\* _connection_loop: all_tokens, the union of the values of _subscriptions
AllTokens(subscriptions) == UNION {WsTokens(c) : c \in subscriptions}

WsMessage(type, assets) == [type |-> type, assets |-> assets]

RECURSIVE Pow2(_)
Pow2(n) == IF n = 0 THEN 1 ELSE 2 * Pow2(n - 1)

\* A faulty back-off without the cap
Backoff_Uncapped(reconnect_count) == Pow2(reconnect_count)

\* _connection_loop: backoff = min(2 ** min(reconnect_count, 6), 60)
Backoff(reconnect_count) == Min(Pow2(Min(reconnect_count, 6)), 60)

InitWs ==
    /\ InitExec
    /\ reprice_threshold_bps = 5

\* WebSocketClient.start(): the connection loop starts and awaits connect
WsStart ==
    /\ ws.pc = "off"
    /\ ws' = [ws EXCEPT !.pc = "connecting", !.running = TRUE]
    /\ call' = Op("ws_start")
    /\ UNCHANGED <<now, today, rvars, cvars, pvars, mm, http, applied>>

\* websockets.connect succeeds: the loop hands the subscribe for all_tokens
\* to the connection, when there are any, and awaits the send
WsConnected ==
    /\ ws.pc = "connecting"
    /\ LET all_tokens == AllTokens(ws.subscriptions)
       IN ws' = [ws EXCEPT
                   !.connected = TRUE,
                   !.frames = 0,
                   !.sent = IF all_tokens # {}
                            THEN << WsMessage("subscribe", all_tokens) >>
                            ELSE <<>>,
                   !.pc = IF all_tokens # {} THEN "subscribing"
                          ELSE "reading"]
    /\ call' = Op("ws_connected")
    /\ UNCHANGED <<now, today, rvars, cvars, pvars, mm, http, applied>>

\* The send of _send_subscribe returns: the loop goes on to read frames
WsSubscribed ==
    /\ ws.pc = "subscribing"
    /\ ws' = [ws EXCEPT !.pc = "reading",
                        !.subscribed_assets = @ \cup ws.sent[1].assets]
    /\ call' = Op("ws_subscribed")
    /\ UNCHANGED <<now, today, rvars, cvars, pvars, mm, http, applied>>

\* A frame that is no book update is read
WsFrame ==
    /\ ws.pc = "reading"
    /\ ws.frames < MaxFrames
    /\ ws' = [ws EXCEPT !.frames = @ + 1, !.last_message_at = now]
    /\ call' = Op("ws_frame")
    /\ UNCHANGED <<now, today, rvars, cvars, pvars, mm, http, applied>>

\* connect raises, the send raises or the connection closes: the finally
\* block, then, when still running, one more on the counter and the sleep
WsLost ==
    /\ ws.pc \in {"connecting", "subscribing", "reading"}
    /\ ws.running => ws.reconnect_count < MaxReconnects
    /\ ws' = IF ws.running
             THEN [ws EXCEPT !.connected = FALSE, !.pc = "backoff",
                             !.sent = <<>>, !.frames = 0,
                             !.reconnect_count = @ + 1,
                             !.backoff = Backoff(ws.reconnect_count + 1)]
             ELSE [ws EXCEPT !.connected = FALSE, !.pc = "exited",
                             !.sent = <<>>, !.frames = 0]
    /\ call' = Op("ws_lost")
    /\ UNCHANGED <<now, today, rvars, cvars, pvars, mm, http, applied>>

\* The sleep is over: the loop connects again
WsBackoffOver ==
    /\ ws.pc = "backoff"
    /\ ws' = [ws EXCEPT !.pc = "connecting"]
    /\ call' = Op("ws_backoff_over")
    /\ UNCHANGED <<now, today, rvars, cvars, pvars, mm, http, applied>>

\* subscribe(market_id, token_ids): recorded, and sent when connected
WsSubscribe ==
    /\ ws.calls < MaxSubscribes
    /\ \E c \in RegistryConditions :
          ws' = [ws EXCEPT
                   !.calls = @ + 1,
                   !.subscriptions = @ \cup {c},
                   !.sent = IF ws.connected
                            THEN Append(@, WsMessage("subscribe", WsTokens(c)))
                            ELSE @,
                   !.subscribed_assets = IF ws.connected
                                         THEN @ \cup WsTokens(c) ELSE @]
    /\ call' = Op("ws_subscribe")
    /\ UNCHANGED <<now, today, rvars, cvars, pvars, mm, http, applied>>

\* unsubscribe(market_id): dropped, and an unsubscribe sent when connected
WsUnsubscribe ==
    /\ ws.calls < MaxSubscribes
    /\ \E c \in ws.subscriptions :
          ws' = [ws EXCEPT
                   !.calls = @ + 1,
                   !.subscriptions = @ \ {c},
                   !.sent = IF ws.connected
                            THEN Append(@, WsMessage("unsubscribe",
                                                     WsTokens(c)))
                            ELSE @,
                   !.subscribed_assets = IF ws.connected
                                         THEN @ \ WsTokens(c) ELSE @]
    /\ call' = Op("ws_unsubscribe")
    /\ UNCHANGED <<now, today, rvars, cvars, pvars, mm, http, applied>>

\* stop(): _running is cleared; with a connection open it awaits the close,
\* otherwise it cancels the loop at once
WsStop ==
    /\ ws.running
    /\ ws' = IF ws.pc \in {"subscribing", "reading"}
             THEN [ws EXCEPT !.running = FALSE, !.stopping = TRUE]
             ELSE [ws EXCEPT !.running = FALSE, !.pc = "stopped",
                             !.connected = FALSE]
    /\ call' = Op("ws_stop")
    /\ UNCHANGED <<now, today, rvars, cvars, pvars, mm, http, applied>>

\* stop() after the close: the loop is cancelled, if it has not left yet
WsStopped ==
    /\ ws.stopping
    /\ ws' = [ws EXCEPT !.stopping = FALSE, !.pc = "stopped",
                        !.connected = FALSE, !.sent = <<>>, !.frames = 0]
    /\ call' = Op("ws_stopped")
    /\ UNCHANGED <<now, today, rvars, cvars, pvars, mm, http, applied>>

NextWs ==
    \/ WsStart \/ WsConnected \/ WsSubscribed \/ WsFrame \/ WsLost
    \/ WsBackoffOver \/ WsSubscribe \/ WsUnsubscribe \/ WsStop \/ WsStopped

SpecWs == InitWs /\ [][NextWs]_vars

(***************************************************************************)
(* The frames of the stream that carry book updates: the parse-and-        *)
(* dispatch path of _connection_loop down to update_book.  An element of   *)
(* a frame is an update together with whether handling it raises (it is no *)
(* dict, so update.get raises, or a level of it has a price or size that   *)
(* float() does not take, so update_book raises before it files anything). *)
(***************************************************************************)
MaxBookFrames == 2

FrameUpdates ==
    { Payload(a, {"bids", "asks"}, b, s) :
        a \in {"yes", "no"}, b \in BidPayloads, s \in AskPayloads }

FrameElements ==
    {[bad |-> FALSE, update |-> u] : u \in FrameUpdates}
        \cup {[bad |-> TRUE, update |-> Payload("yes", {}, <<>>, <<>>)]}

\* json.loads gives a list of updates, one update, or raises
Frames ==
    {[kind |-> "list", updates |-> <<a, b>>] : a, b \in FrameElements}
        \cup {[kind |-> "dict", updates |-> <<a>>] : a \in FrameElements}
        \cup {[kind |-> "text", updates |-> <<>>]}

\* The updates of a frame handed to on_book_update one after the other
\* inside the one try block: the first that raises ends the loop
RECURSIVE Dispatch(_, _, _)
Dispatch(markets, updates, t) ==
    IF updates = <<>> THEN markets
    ELSE IF Head(updates).bad THEN markets
    ELSE Dispatch(OnBookUpdate(markets, Head(updates).update, t).markets,
                  Tail(updates), t)

\* A frame is read while the connection is open; the except clauses keep
\* the loop reading
WsBookFrame ==
    /\ ws.pc = "reading"
    /\ ws.frames < MaxBookFrames
    /\ \E frame \in Frames :
          /\ mm' = [mm EXCEPT !.markets = Dispatch(@, frame.updates, now)]
          /\ call' = [op |-> "ws_book_frame", frame |-> frame,
                      before |-> mm.markets, t |-> now]
    /\ ws' = [ws EXCEPT !.frames = @ + 1, !.last_message_at = now]
    /\ UNCHANGED <<now, today, rvars, cvars, pvars, http, applied>>

NextFrames == WsStart \/ WsConnected \/ WsBookFrame \/ WsLost \/ WsBackoffOver

SpecFrames == InitWs /\ [][NextFrames]_vars

(***************************************************************************)
(* Properties of the frames.                                               *)
(***************************************************************************)
\* Every update of the list that does not raise, applied in order
RECURSIVE ApplyAllGood(_, _, _)
ApplyAllGood(markets, updates, t) ==
    IF updates = <<>> THEN markets
    ELSE IF Head(updates).bad THEN ApplyAllGood(markets, Tail(updates), t)
    ELSE ApplyAllGood(OnBookUpdate(markets, Head(updates).update, t).markets,
                      Tail(updates), t)

FrameRead == call.op = "ws_book_frame"

\* C33, as claimed: an update that fails is dropped alone: the other updates
\* of its frame and the later frames are applied to the book store, the
\* connection stays open, and the failed update changes no book.
C33_MalformedDroppedAlone ==
    FrameRead =>
        /\ mm.markets = ApplyAllGood(call.before, call.frame.updates, call.t)
        /\ ws.pc = "reading"
        /\ ws.connected

\* What holds instead: a frame whose first update fails changes no book, a
\* frame with no failing update is applied whole, the connection stays open
FrameAppliedUpToFailure ==
    FrameRead =>
        /\ (call.frame.updates # <<>> /\ Head(call.frame.updates).bad)
              => mm.markets = call.before
        /\ (\A n \in 1..Len(call.frame.updates) : ~call.frame.updates[n].bad)
              => mm.markets = ApplyAllGood(call.before, call.frame.updates,
                                           call.t)
        /\ ws.pc = "reading"
        /\ ws.connected

(***************************************************************************)
(* Properties of WebSocketClient.                                          *)
(***************************************************************************)
\* This step is the loss of a connection, or of an attempt to connect, by a
\* client that is running
ConnectionLost ==
    /\ ws.running
    /\ ws'.running
    /\ ws.pc \in {"connecting", "subscribing", "reading"}
    /\ ws'.pc \notin {"connecting", "subscribing", "reading"}

\* C25: every connection loss of a running client adds exactly one to the
\* attempt counter and starts a wait of min(2^min(attempt, 6), 60) seconds:
\* 2, 4, 8, 16, 32 for the first five attempts and 60 from the sixth on, never
\* more; and once stop() has been called the loop neither connects nor waits
\* again and the counter stays.
C25_BackoffOnEveryLoss ==
    [][/\ ConnectionLost =>
             /\ ws'.reconnect_count = ws.reconnect_count + 1
             /\ ws'.pc = "backoff"
             /\ ws'.backoff =
                   IF ws'.reconnect_count <= 5
                   THEN <<2, 4, 8, 16, 32>>[ws'.reconnect_count]
                   ELSE 60
       /\ (ws.pc # "off" /\ ~ws.running) =>
             /\ ~ws'.running
             /\ ws'.pc \notin {"connecting", "backoff"}
             /\ ws'.reconnect_count = ws.reconnect_count]_vars

\* C25, witness: the sixth loss in a row, whose wait is cut to 60 seconds
C25_SixthLossWaits60 ==
    /\ call.op = "ws_lost"
    /\ ws.pc = "backoff"
    /\ ws.reconnect_count = 6
    /\ ws.backoff = 60

\* The tokens of the subscribe messages sent on the open connection
SentTokens ==
    UNION {ws.sent[n].assets :
              n \in {k \in 1..Len(ws.sent) : ws.sent[k].type = "subscribe"}}

\* The tokens registered through subscribe() and not unsubscribed since
Registered == UNION {WsTokens(c) : c \in ws.subscriptions}

\* C26: a step that opens a connection hands it, as its first message and
\* before any frame of it is read, one subscribe for all the tokens that are
\* registered at that moment, those registered while the connection was down
\* included (and no message when none is registered); and whenever a frame is
\* read a subscribe has been sent on that connection for every registered
\* token.
C26_ResubscribesOnConnect ==
    [][/\ (~ws.connected /\ ws'.connected) =>
             /\ ws'.frames = 0
             /\ ws'.sent = IF Registered = {} THEN <<>>
                           ELSE << WsMessage("subscribe", Registered) >>
       /\ ws'.frames > ws.frames =>
             /\ ws.connected
             /\ Registered \subseteq SentTokens]_vars

\* C26, witness: a connection opened again after a loss, with the tokens of
\* both markets in its first message, and a frame was read
C26_ResubscribedBothMarkets ==
    /\ ws.connected
    /\ ws.reconnect_count > 0
    /\ ws.frames > 0
    /\ ws.sent # <<>>
    /\ ws.sent[1] = WsMessage("subscribe", {"yes", "no", "yes2", "no2"})

(***************************************************************************)
(* Market discovery on its own: the passes of Engine._discover_markets     *)
(* over the lists of candidates that the metadata endpoint answers with.   *)
(***************************************************************************)
MaxDiscoveries == 2
max_markets == 2

\* A market of the answer: conditionId, slug, enableOrderBook, and outcomes
\* with clobTokenIds in the same order
Candidate(cid, slug, enable, outcomes, tokens) ==
    [conditionId |-> cid, slug |-> slug, enableOrderBook |-> enable,
     outcomes |-> outcomes, clobTokenIds |-> tokens]

GammaCandidates ==
    { Candidate("c1", "m1", TRUE, <<"Yes", "No">>, <<"yes", "no">>),
      Candidate("c2", "m2", TRUE, <<"No", "Yes">>, <<"no2", "yes2">>),
      Candidate("c3", "m3", TRUE, <<"Yes", "No">>, <<"yes3", "no3">>),
      Candidate("c4", "m4", TRUE, <<"Yes", "No">>, <<"yes4", "no4">>),
      Candidate("c5", "m5", FALSE, <<"Yes", "No">>, <<"yes5", "no5">>),
      Candidate("c6", "m6", TRUE, <<"Up", "Down">>, <<"up6", "down6">>),
      Candidate("", "m7", TRUE, <<"Yes", "No">>, <<"yes7", "no7">>) }

\* The answers of get_gamma_markets: three candidates in any order
GammaAnswers == [1..3 -> GammaCandidates]

\* outcomes.index(name)
IndexOf(outcomes, name) == CHOOSE n \in 1..Len(outcomes) : outcomes[n] = name

\* _discover_markets, the tests that pass a candidate over
PassedOver(markets, m) ==
    \/ ~m.enableOrderBook
    \/ m.conditionId = ""
    \/ \E n \in 1..Len(markets) : markets[n].condition_id = m.conditionId
    \/ Len(m.outcomes) # 2
    \/ Len(m.clobTokenIds) # 2
    \/ {m.outcomes[n] : n \in 1..Len(m.outcomes)} # {"Yes", "No"}

\* _discover_markets, a candidate that is taken: add_market, then the two
\* books of the initial fetch when it succeeded
Tracked(markets, m, books_ok, t) ==
    LET yes == m.clobTokenIds[IndexOf(m.outcomes, "Yes")]
        no == m.clobTokenIds[IndexOf(m.outcomes, "No")]
        added == Append(markets, NewMarket(m.slug, m.conditionId, yes, no))
        book == [keys |-> {"bids", "asks"},
                 bids |-> << [price |-> 401, size |-> 200] >>,
                 asks |-> << [price |-> 500, size |-> 200] >>]
    IN IF books_ok
       THEN UpdateBook(UpdateBook(added, yes, book, t).markets,
                       no, book, t).markets
       ELSE added

\* _discover_markets, the loop over markets_data from the candidate at hand:
\* the registry and the subscriptions after it
RECURSIVE DiscoverFrom(_, _, _, _, _, _)
DiscoverFrom(markets, subscriptions, data, count, books_ok, t) ==
    IF data = <<>> \/ count >= max_markets
    THEN [markets |-> markets, subscriptions |-> subscriptions]
    ELSE IF PassedOver(markets, Head(data))
    THEN DiscoverFrom(markets, subscriptions, Tail(data), count, books_ok, t)
    ELSE DiscoverFrom(Tracked(markets, Head(data), books_ok, t),
                      subscriptions \cup {Head(data).conditionId},
                      Tail(data), count + 1, books_ok, t)

\* The engine before its first discovery: no market is tracked
InitDiscovery ==
    /\ streak = NoStreak
    /\ now = 0
    /\ today = 1
    /\ risk = RiskInit
    /\ verdict = NoVerdict
    /\ call = NoCall
    /\ ExecInit
    /\ ClientInit
    /\ applied = NoneApplied
    /\ reprice_threshold_bps = 5
    /\ mm = [MmInit EXCEPT !.markets = <<>>]

\* A pass of _discover_markets on an answer of the endpoint; the streaming
\* client is not connected, so that subscribe() only records the tokens
Discover ==
    /\ mm.discoveries < MaxDiscoveries
    /\ \E data \in GammaAnswers, books_ok \in BOOLEAN :
          LET res == DiscoverFrom(mm.markets, ws.subscriptions, data, 0,
                                  books_ok, now)
          IN /\ mm' = [mm EXCEPT !.markets = res.markets,
                                  !.discoveries = @ + 1]
             /\ ws' = [ws EXCEPT !.subscriptions = res.subscriptions]
             /\ call' = [op |-> "discover_markets", data |-> data,
                         before |-> mm.markets]
    /\ UNCHANGED <<now, today, rvars, cvars, pvars, http, applied>>

\* get_gamma_markets raised: the pass returns at once
DiscoverFailed ==
    /\ mm.discoveries < MaxDiscoveries
    /\ mm' = [mm EXCEPT !.discoveries = @ + 1]
    /\ call' = Op("discover_failed")
    /\ UNCHANGED <<now, today, rvars, cvars, pvars, nvars>>

NextDiscovery == Discover \/ DiscoverFailed

SpecDiscovery == InitDiscovery /\ [][NextDiscovery]_vars

(***************************************************************************)
(* Properties of market discovery.                                         *)
(***************************************************************************)
\* C27, as claimed: the registry never holds more than max_markets markets,
\* no two of its markets have one condition id, and a discovery pass leaves
\* every market that was in the registry where and as it was, books apart.
C27_RegistryBounded ==
    /\ Len(mm.markets) <= max_markets
    /\ \A i, j \in 1..Len(mm.markets) :
          mm.markets[i].condition_id = mm.markets[j].condition_id => i = j
    /\ call.op = "discover_markets" =>
          \A n \in 1..Len(call.before) :
             /\ n <= Len(mm.markets)
             /\ mm.markets[n].condition_id = call.before[n].condition_id
             /\ mm.markets[n].yes_token_id = call.before[n].yes_token_id
             /\ mm.markets[n].no_token_id = call.before[n].no_token_id

(***************************************************************************)
(* Properties of cancel_all.                                               *)
(***************************************************************************)
\* The orders of recent_orders that are open: PENDING, OPEN or PARTIAL
OpenOrders(os) ==
    {n \in 1..Len(os) : os[n].status \in {"PENDING", "OPEN", "PARTIAL"}}

\* This step is a cancel_all that returns without an exception
CancelAllReturns ==
    /\ ext.pc = "cancel_all_wait"
    /\ call'.op = "cancel_all"
    /\ call'.ok

\* C23, as claimed: a cancel_all that succeeds returns the number of orders
\* that are open (PENDING, OPEN or PARTIAL) when it returns, leaves none of
\* them open and leaves active_quotes empty.
C23_CancelAllCountsOpenOrders ==
    [][CancelAllReturns =>
          /\ call'.n = Cardinality(OpenOrders(orders))
          /\ OpenOrders(orders') = {}
          /\ active_quotes' = <<>>]_vars

(***************************************************************************)
(* Properties of the reconciliation step.                                  *)
(***************************************************************************)
\* The order that active_quotes holds for the key sync_quotes is at (0: none)
Displaced == Get(active_quotes, DesiredKey)

\* This step sends the place request of the order sync_quotes is at
ReplacementIssued ==
    /\ scan.pc \in {"order", "cancel_wait"}
    /\ scan'.pc = "place_wait"

\* C28: whenever sync_quotes sends the place request for a key that holds an
\* order, the cancel request for that order has been sent before: the place
\* request goes out in the step in which the cancel call returns, never
\* straight from the comparison with the order held.
C28_CancelBeforeReplace ==
    [][(ReplacementIssued /\ Displaced # 0) =>
          /\ scan.pc = "cancel_wait"
          /\ scan.oid = Displaced]_vars

\* C28, witness: the cancel of a displaced order that was open has returned
\* and the place request of its replacement is out
C28_ReplacedAfterCancel ==
    /\ call.op = "cancel_order"
    /\ call.ok
    /\ scan.pc = "place_wait"
    /\ orders[call.oid].status = "CANCELLED"
    /\ Get(active_quotes, DesiredKey) = call.oid

\* This step is the answer to a place request, and it is a rejection: no
\* order id in the answer, or the call raised
PlacementRejected ==
    /\ scan.pc = "place_wait"
    /\ call'.op = "place_order"
    /\ ~call'.ok

\* C30: when the exchange rejects a placement, the record joins recent_orders
\* with the status REJECTED and _total_rejects grows by exactly one;
\* sync_quotes goes on, stores the record under its key and turns to the next
\* order of the quote; and within one sync_quotes call the place requests go
\* out for one order after the other, never twice for one.
C30_RejectionRecordedNoRetry ==
    [][/\ PlacementRejected =>
             /\ Len(orders') = Len(orders) + 1
             /\ orders'[Len(orders')].status = "REJECTED"
             /\ total_rejects' = total_rejects + 1
             /\ scan'.pc = "place_db"
             /\ scan'.oid = Len(orders')
             /\ scan'.i = scan.i
       /\ (scan.pc = "place_db" /\ orders[scan.oid].status = "REJECTED") =>
             /\ scan'.pc = "order"
             /\ scan'.i = scan.i + 1
             /\ Get(active_quotes', DesiredKey) = scan.oid
             /\ orders' = orders
       /\ (scan.pc \in {"order", "cancel_wait", "place_wait", "place_db"}
             /\ scan'.pc \in {"order", "cancel_wait", "place_wait",
                              "place_db"}) =>
             /\ scan'.sig = scan.sig
             /\ scan'.i >= scan.i
             /\ (scan.pc = "place_wait" /\ scan'.pc = "place_wait")
                   => UNCHANGED scan]_vars

\* C30, witness: a placement was rejected and sync_quotes has gone on to the
\* next order of the quote
C30_RejectedAndMovedOn ==
    /\ total_rejects = 1
    /\ call.op = "store_order"
    /\ orders[call.oid].status = "REJECTED"
    /\ scan.pc = "order"
    /\ scan.i > 1

\* The order is in the live-order map
InLiveMap(oid) == \E n \in 1..Len(active_quotes) : active_quotes[n].oid = oid

(***************************************************************************)
(* Properties of the risk gate inside sync_quotes.                         *)
(***************************************************************************)
\* check_signal has just run on a QuoteSignal (no yes_price, no no_price),
\* with the breaker inactive and neither loss threshold reached
QuoteSignalPastLossChecks ==
    /\ call.op = "check_signal"
    /\ ~call.cand.leg_prices
    /\ verdict.code \notin {"CIRCUIT_BREAKER", "DAILY_LOSS", "CONSEC_LOSSES"}

\* C36, as claimed: for every QuoteSignal that sync_quotes hands to
\* check_signal while the breaker is inactive and neither loss threshold is
\* reached, check_signal evaluates the exposure and open-order checks and
\* returns a verdict without raising, and when the verdict is allowed
\* sync_quotes goes on to reconcile the four orders of the signal.
C36_AlwaysAVerdict ==
    QuoteSignalPastLossChecks =>
        /\ ~verdict.raised
        /\ verdict.code \in {"OK", "TOTAL_EXPOSURE", "MARKET_EXPOSURE",
                             "MAX_ORDERS"}
        /\ verdict.allowed => (scan.pc = "order" /\ scan.i = 1)

\* What the code does with every such QuoteSignal: AttributeError, and the
\* iteration of the scan loop ends without a refresh pass
QuoteSignalRaises ==
    QuoteSignalPastLossChecks =>
        /\ verdict.raised
        /\ verdict.code = "AttributeError"
        /\ scan = ScanSleep

(***************************************************************************)
(* Properties of the live-order map against the exchange.                  *)
(***************************************************************************)
\* The order rests at the exchange as far as the controller has been told:
\* it was placed, no get_order has reported it filled or cancelled, and no
\* cancel of it has been accepted
Resting(oid) == orders[oid].status \in LiveStatuses

\* C37, as claimed: every order that was placed and has not been filled or
\* successfully cancelled is in the live-order map between two operations of
\* the controller, so that no key has two such orders, also when a cancel
\* request has failed during a replace or a TTL expiry.
C37_NoUntrackedRestingOrder ==
    scan.pc = "sleep" =>
        /\ \A oid \in 1..Len(orders) : Resting(oid) => InLiveMap(oid)
        /\ \A a, b \in 1..Len(orders) :
              (a # b /\ Resting(a) /\ Resting(b))
                 => KeyOfOrder(orders[a]) # KeyOfOrder(orders[b])

(***************************************************************************)
(* Properties of the orders table against the live-order map.              *)
(***************************************************************************)
\* get_open_orders: the rows check_signal counts against max_open_orders
DbOpenSet ==
    {oid \in 1..Len(db_orders) : db_orders[oid].status \in DbOpenStatuses}

\* The orders of the live-order map that are not in a terminal status
MapOpenSet ==
    {oid \in 1..Len(orders) :
        InLiveMap(oid) /\ orders[oid].status \notin TerminalStatuses}

\* No operation of the controller is under way
ControllerAtRest == scan.pc = "sleep" /\ ext.pc = "idle"

\* C39, as claimed: after every completed operation of the controller the
\* open orders the risk gate counts (the rows with status PENDING, OPEN or
\* PARTIAL) are the non-terminal orders of the live-order map; the set is
\* empty after a successful cancel_all and has lost every order dropped by
\* TTL expiry.
C39_DbOpenSetIsLiveMap ==
    ControllerAtRest =>
        /\ DbOpenSet = MapOpenSet
        /\ (call.op = "cancel_all" /\ call.ok) => DbOpenSet = {}

\* One half does hold: what the map holds as open is open in the table
MapOpenSetInDb == ControllerAtRest => MapOpenSet \subseteq DbOpenSet

(***************************************************************************)
(* Properties of the positions table.                                      *)
(***************************************************************************)
\* C34, as claimed: after every applied fill the row of the position in the
\* positions table has the size and the average price of the position in
\* memory, so that load_positions at the next start gives back every
\* position of a size other than zero as it was held before.
C34_RowMatchesPosition ==
    call.op = "apply_fill" =>
        \A o \in Outcomes :
            positions[o].size # 0 =>
                /\ LoadPositions(db_positions)[o].size = positions[o].size
                /\ LoadPositions(db_positions)[o].avg_price
                      = positions[o].avg_price

\* The sizes, at least, come back as they were
RowSizeMatchesPosition ==
    call.op = "apply_fill" =>
        \A o \in Outcomes :
            LoadPositions(db_positions)[o].size = positions[o].size

(***************************************************************************)
(* Properties of a refresh pass.                                           *)
(***************************************************************************)
\* get_order has just answered for the order call.oid
Polled == call.op = "get_order"

\* C31, as claimed: in a refresh pass an order whose remote status is
\* CANCELLED or EXPIRED is set to CANCELLED and removed from the live-order
\* map whatever cumulative fill below its size the exchange reports; an order
\* with remote status MATCHED or a cumulative fill of its size or more is set
\* to FILLED and removed.
C31_RemoteStatusDecides ==
    Polled =>
       LET o == orders[call.oid]
           answer == call.answer
       IN /\ (answer.status \in {"CANCELLED", "EXPIRED"}
                 /\ answer.size_matched < o.size)
             => (o.status = "CANCELLED" /\ ~InLiveMap(call.oid))
          /\ (answer.status = "MATCHED" \/ answer.size_matched >= o.size)
             => (o.status = "FILLED" /\ ~InLiveMap(call.oid))

\* refresh_open_orders is called within quote_refresh_ms of the last pass
TooSoon == scan.pc = "refresh_begin" /\ now - last_refresh < quote_refresh_ms

\* The pass is at a live order whose age, taken at the start of the pass,
\* exceeds quote_ttl_ms
AtExpiredOrder ==
    /\ scan.pc = "refresh"
    /\ scan.todo # <<>>
    /\ orders[Head(scan.todo).oid].status \in LiveStatuses
    /\ scan.ref_now - orders[Head(scan.todo).oid].created_at > quote_ttl_ms

\* C32: a call of refresh_open_orders within quote_refresh_ms of the last
\* pass does nothing; in a pass that runs, every live order older than the
\* quote TTL has its cancel issued, with no get_order for it, and has left the
\* live-order map when the cancel has returned.
C32_RateLimitAndTtl ==
    [][/\ TooSoon => /\ scan' = ScanSleep
                     /\ UNCHANGED <<orders, active_quotes, positions,
                                    db_orders, db_positions, last_refresh,
                                    rvars, pvars, events>>
       /\ AtExpiredOrder => /\ scan'.pc = "ref_cancel_wait"
                            /\ scan'.oid = Head(scan.todo).oid
       /\ scan.pc = "ref_cancel_wait"
            => /\ scan'.pc = "refresh"
               /\ scan'.todo = Tail(scan.todo)
               /\ \A n \in 1..Len(active_quotes') :
                      active_quotes'[n].oid # scan.oid]_vars

\* C32, witness: the cancel of an order past its TTL has returned in a pass
\* and the order has left the live-order map
C32_ExpiredOrderDropped ==
    /\ call.op = "cancel_order"
    /\ scan.pc = "refresh"
    /\ ~InLiveMap(call.oid)
    /\ last_refresh - orders[call.oid].created_at > quote_ttl_ms

\* The part of C31 about MATCHED and full fills, and the remote cancel of an
\* order with no fill reported
RemoteDoneDropped ==
    Polled =>
       LET o == orders[call.oid]
           answer == call.answer
       IN /\ (answer.status \in {"CANCELLED", "EXPIRED"}
                 /\ answer.size_matched = 0)
             => (o.status = "CANCELLED" /\ ~InLiveMap(call.oid))
          /\ (answer.status = "MATCHED" \/ answer.size_matched >= o.size)
             => (o.status = "FILLED" /\ ~InLiveMap(call.oid))

\* C35: for every order record, in every state, 0 <= filled_size <= size,
\* whatever the exchange answers to get_order, a size_matched above the size
\* of the order included.
C35_FilledWithinSize ==
    \A oid \in 1..Len(orders) :
        /\ 0 <= orders[oid].filled_size
        /\ orders[oid].filled_size <= orders[oid].size

\* C35, witness: get_order has reported more matched than the order's size
C35_OverReported ==
    /\ Polled
    /\ call.answer.size_matched > orders[call.oid].size
    /\ orders[call.oid].filled_size = orders[call.oid].size

\* C38, as claimed: for every order the sum of the fills applied to the
\* positions equals the order's filled_size in every state a refresh pass
\* reaches, never exceeds the order's size, and equals the size once the
\* order is FILLED, whatever the exchange answers (MATCHED with a
\* size_matched below the size, a size_matched that goes down).
C38_FillsConserved ==
    scan.pc # "ref_get_wait" =>
        \A oid \in 1..Len(orders) :
            /\ applied[oid] = orders[oid].filled_size
            /\ applied[oid] <= orders[oid].size
            /\ orders[oid].status = "FILLED" => applied[oid] = orders[oid].size

(***************************************************************************)
(* Properties of fills as the risk gate sees them.                         *)
(***************************************************************************)
\* The step applies a fill: get_order reported more matched than was booked
FillStep == call'.op = "get_order" /\ call'.delta > 0

\* The gate as record_cycle_result finds it on the day: yesterday's counters
\* are zeroed first
OnTheDay(r) ==
    IF r.daily_reset_date = today THEN r
    ELSE [r EXCEPT !.daily_pnl = 0, !.consecutive_losses = 0]

\* C40: every BUY fill reaches the risk gate as a negative PnL delta, one
\* more consecutive loss, and every SELL fill as a non-negative one, which
\* ends the run; a check_signal that finds max_consecutive_losses of them on
\* the day, or a daily PnL at the daily-loss limit, rejects and leaves the
\* breaker tripped: it trips it there and then unless it is active already.
C40_BuyFillsAreLosses ==
    [][/\ FillStep =>
            LET o == orders[call'.oid]
            IN /\ call'.pnl = risk'.daily_pnl - OnTheDay(risk).daily_pnl
               /\ o.side = "BUY" =>
                     /\ call'.pnl < 0
                     /\ risk'.consecutive_losses
                           = OnTheDay(risk).consecutive_losses + 1
               /\ o.side = "SELL" =>
                     /\ call'.pnl >= 0
                     /\ risk'.consecutive_losses = 0
       /\ (/\ call'.op = "check_signal"
           /\ \/ OnTheDay(risk).consecutive_losses >= max_consecutive_losses
              \/ OnTheDay(risk).daily_pnl <= 0 - max_daily_loss_usdc)
            => /\ ~verdict'.allowed
               /\ ~verdict'.raised
               /\ risk'.triggered
               /\ IF IsActive(risk, now)
                  THEN verdict'.code = "CIRCUIT_BREAKER"
                  ELSE /\ verdict'.code \in {"CONSEC_LOSSES", "DAILY_LOSS"}
                       /\ risk'.triggered_at = now]_vars

\* C40, witness: BUY fills alone, with no SELL fill, have brought the gate to
\* max_consecutive_losses while the daily PnL is short of the limit, and
\* check_signal has tripped the breaker
C40_TrippedByBuyFills ==
    /\ call.op = "check_signal"
    /\ ~verdict.allowed
    /\ verdict.code = "CONSEC_LOSSES"
    /\ risk.triggered
    /\ call.before.consecutive_losses = max_consecutive_losses
    /\ call.before.daily_pnl > 0 - max_daily_loss_usdc
    /\ \A oid \in 1..Len(orders) :
          applied[oid] > 0 => orders[oid].side = "BUY"

\* The daily PnL of BUY fills alone has reached the daily-loss limit
DailyLimitByBuyFills ==
    /\ call.op = "check_signal"
    /\ verdict.code = "DAILY_LOSS"
    /\ risk.triggered
    /\ call.before.daily_pnl = cumulative_pnl
    /\ \A oid \in 1..Len(orders) :
          applied[oid] > 0 => orders[oid].side = "BUY"

(***************************************************************************)
(* Properties of fills that come after a cancel.                           *)
(***************************************************************************)
\* The fill of the order has been applied: refresh_open_orders has taken the
\* order's filled_size up to its size, which is where it calls _apply_fill
\* with the difference
FillApplied(oid) == orders[oid].filled_size = orders[oid].size

LateFillPending == \E oid \in late_fills : ~FillApplied(oid)

\* No refresh pass asks the exchange for an order that was matched while
\* its cancel was on its way: its key has gone from the live-order map, or
\* holds the order that replaced it, before the next pass copies the map
LateFillNeverAskedFor ==
    scan.pc = "ref_get_wait" => scan.oid \notin late_fills

\* C29, as claimed: a fill that the exchange reports for an order after the
\* controller has issued the cancel of it (it was replaced, or it was past
\* its TTL) is applied by a later refresh pass: the order's fill, and with
\* it the position and the PnL, eventually reflect it.
C29_LateFillApplied == LateFillPending ~> ~LateFillPending

(***************************************************************************)
(* Properties of the execution controller.                                 *)
(***************************************************************************)
\* C1, as claimed: an order whose status is FILLED, CANCELLED or REJECTED
\* keeps that status in every later step of the scan task and of cancel_all.
C1_TerminalSticky ==
    [][\A n \in 1..Len(orders) :
          orders[n].status \in TerminalStatuses
              => orders'[n].status = orders[n].status]_vars

\* C2, as claimed: when sync_quotes has reconciled a quote that passed the
\* gate and every placement of the call succeeded, the keys of the condition
\* in active_quotes are exactly the keys of the quote's four orders, and no
\* order of the condition under another key is still live.
C2_LiveKeysAreDesired ==
    (call.op = "sync_quotes" /\ call.clean) =>
        /\ {k \in KeysOf(active_quotes) : k[1] = call.sig.condition_id}
              = DesiredKeys(call.sig)
        /\ \A n \in 1..Len(orders) :
              (/\ orders[n].condition_id = call.sig.condition_id
               /\ KeyOfOrder(orders[n]) \notin DesiredKeys(call.sig))
              => orders[n].status \notin LiveStatuses

\* The drift of the live price from the desired one is below the threshold:
\* |live - desired| / live * 10000 < threshold, for live > 0
DriftBelow(existing, desired, threshold_bps) ==
    Abs(existing.price - desired.price) * 10000 < threshold_bps * existing.price

\* What sync_quotes did with the live order it found under a desired key:
\* it went on to the next order, or it issued the cancel of the live order,
\* after which the new order is placed
KeptIt == call.kept /\ scan.pc = "order"

ReplacedIt == ~call.kept /\ scan.pc = "cancel_wait" /\ scan.oid = call.oid

\* C3, as claimed: the live order found under a desired key is kept iff it is
\* OPEN or PARTIAL, of the desired size, priced above 0, its drift is
\* strictly below reprice_threshold_bps, and its age is strictly below the
\* TTL; otherwise it is cancelled and a new order is placed.
C3_KeptIffFresh ==
    (call.op = "reconcile" /\ call.oid # 0) =>
        LET fresh == /\ call.existing.status \in {"OPEN", "PARTIAL"}
                     /\ call.existing.size = call.desired.size
                     /\ call.existing.price > 0
                     /\ DriftBelow(call.existing, call.desired,
                                   reprice_threshold_bps)
                     /\ now - call.existing.created_at < quote_ttl_ms
        IN IF fresh THEN KeptIt ELSE ReplacedIt

\* C3, amended: the live order found under a desired key is kept iff it is
\* OPEN or PARTIAL, of the desired size, priced above 0, its drift is
\* strictly below reprice_threshold_bps, and its age is not above the TTL (an
\* order of exactly the TTL's age is kept); otherwise it is cancelled and a
\* new order is placed.
C3_KeptIffNotExpired ==
    (call.op = "reconcile" /\ call.oid # 0) =>
        LET fresh == /\ call.existing.status \in {"OPEN", "PARTIAL"}
                     /\ call.existing.size = call.desired.size
                     /\ call.existing.price > 0
                     /\ DriftBelow(call.existing, call.desired,
                                   reprice_threshold_bps)
                     /\ now - call.existing.created_at <= quote_ttl_ms
        IN IF fresh THEN KeptIt ELSE ReplacedIt

\* C3, witness: a live order at 0.450 is kept for a desired price of 0.449
\* under a threshold of 30 bps
C3_KeptWithinThreshold ==
    /\ call.op = "reconcile"
    /\ call.oid # 0
    /\ call.existing.price = 450
    /\ call.desired.price = 449
    /\ reprice_threshold_bps = 30
    /\ KeptIt

\* C4: a sync_quotes call made while the breaker is active (tripped, and the
\* time since the trip not beyond the cooldown) gets (false, reason) from
\* check_signal and returns without placing an order or issuing a cancel.
C4_NothingWhileBreakerActive ==
    [][(/\ scan.pc = "sleep"
        /\ call'.op = "check_signal"
        /\ BreakerActive(risk, now))
       => /\ ~verdict'.raised
          /\ ~verdict'.allowed
          /\ verdict'.code = "CIRCUIT_BREAKER"
          /\ scan'.pc = "refresh_begin"
          /\ orders' = orders
          /\ active_quotes' = active_quotes]_vars

\* C4, witness: sync_quotes was called with live quotes while the breaker was
\* active, and was turned away
C4_TurnedAwayWithLiveQuotes ==
    /\ call.op = "check_signal"
    /\ BreakerActive(call.before, now)
    /\ verdict.code = "CIRCUIT_BREAKER"
    /\ active_quotes # <<>>
    /\ scan.pc = "refresh_begin"

\* C10, as claimed: every position of the table has avg_price = 0 iff its
\* size is 0.
C10_AvgZeroIffFlat ==
    \A o \in Outcomes :
        positions[o].held => (positions[o].avg_price = 0 <=> positions[o].size = 0)

====
